---- MODULE Spec2Model ----
(***************************************************************************)
(* A model of fhirguard's validation side: the path accessor               *)
(* (fhirguard_core/filter.py), the metadata store (fhirguard/metadata.py), *)
(* the validators (fhirguard/validators) and the fluent per-resource       *)
(* ValidatorStrategy (fhirguard/fhirguard.py).                             *)
(*                                                                         *)
(* Python strings that the code builds by formatting are sequences of      *)
(* atomic tokens: the path "link.type" is <<"link", ".", "type">> and      *)
(* f"{path}[{index}]" appends the tokens "[", "0", "]".  Strings the code  *)
(* only compares (codes, displays, urls, valueset names) are atoms.        *)
(***************************************************************************)
EXTENDS Naturals, Sequences, FiniteSets, TLC

VARIABLES
    resource,   \* ValidatorStrategy._resource
    _issues,    \* ValidatorStrategy._issues: an insertion-ordered dict, <<[k, v], ...>>
    raised,     \* the exception that left the last strategy call, or NoExc
    last,       \* the last strategy call: what it was given, resolved and handed on
    ncalls,     \* calls made on this strategy so far
    vkind,      \* the class of the validator under direct use
    vissues,    \* Validator.issues of the validator under direct use
    vlast,      \* the last direct validate call: its arguments and its outcome
    nvalidate,  \* validate calls made on that validator so far
    qrecord,    \* the record handed to query_resource
    qlast,      \* the last query_resource call: its path and what it returned
    _cache,     \* Metadata._cache: <<[k, v], ...>>, k a Path or a str
    reads,      \* how many definition files the Metadata instance has read
    lookups,    \* the get_valueset / get_codesystem calls made, with their outcomes
    factory,    \* DefinitionFactory: _target_packages and _reference_packages
    hashseed,   \* the order this process's string hashing gives the type tags
    generated,  \* generate's Definition under construction: valuesets and codesystems
    outdir,     \* what is at the output path
    glast       \* the last step of the metadata compiler, with its outcome

vars == <<resource, _issues, raised, last, ncalls, vkind, vissues, vlast, nvalidate,
          qrecord, qlast, _cache, reads, lookups,
          factory, hashseed, generated, outdir, glast>>

(* Bounds of the model. *)
MaxCalls == 2
MaxValidate == 1

----------------------------------------------------------------------------
(* Python values. *)

\* Python's None where the code expects an optional string.
None == "<None>"
\* No exception left the call.
NoExc == "-"

NoneV == [t |-> "none"]
StrV(s) == [t |-> "str", v |-> s]
IntV(n) == [t |-> "int", v |-> n]
BoolV(b) == [t |-> "bool", v |-> b]
ListV(items) == [t |-> "list", v |-> items]
DictV(fields) == [t |-> "dict", v |-> fields]
ElemV(fields) == [t |-> "elem", v |-> fields]
CodingV(system, code, display) ==
    [t |-> "Coding", v |-> [system |-> system, code |-> code, display |-> display]]
ConceptV(coding) == [t |-> "CodeableConcept", v |-> [coding |-> coding]]
EmptyDictV == [t |-> "dict", v |-> <<>>]

\* bool(value): None, "", 0, [] and {} are falsy; a pydantic model is always truthy.
Truthy(value) ==
    CASE value.t = "none" -> FALSE
      [] value.t = "str" -> value.v # ""
      [] value.t = "int" -> value.v # 0
      [] value.t = "bool" -> value.v
      [] value.t = "list" -> value.v # <<>>
      [] value.t = "dict" -> DOMAIN value.v # {}
      [] OTHER -> TRUE

\* bool(s) of an optional string.
TruthyStr(s) == s # None /\ s # ""

\* str(s) as an f-string renders it.
Fmt(s) == IF s = None THEN "None" ELSE s

\* str(index) for the indexes the model reaches.
IndexStr(i) == <<"0", "1", "2", "3", "4", "5", "6", "7", "8", "9">>[i + 1]

\* An optional string attribute as the value getattr returns.
Wrap(s) == IF s = None THEN NoneV ELSE StrV(s)

CodingFields == {"system", "code", "display"}

\* getattr(resource, label, None)
GetAttr(res, label) ==
    CASE res.t \in {"elem", "CodeableConcept"} ->
            IF label \in DOMAIN res.v THEN res.v[label] ELSE NoneV
      [] res.t = "Coding" ->
            IF label \in CodingFields THEN Wrap(res.v[label]) ELSE NoneV
      [] OTHER -> NoneV

\* dict.get(label, None)
DictGet(res, label) == IF label \in DOMAIN res.v THEN res.v[label] ELSE NoneV

RECURSIVE Concat(_)
Concat(seqs) == IF seqs = <<>> THEN <<>> ELSE Head(seqs) \o Concat(Tail(seqs))

\* path.split(".") of a non-empty path
Split(path) == SelectSeq(path, LAMBDA tok : tok # ".")

RECURSIVE _recursive_query(_, _)
_recursive_query(labels, res) ==
    IF labels = <<>> THEN <<res>>
    ELSE LET label == Head(labels)
             rest == Tail(labels)
             attr == GetAttr(res, label)
             child_resource ==
                 IF ~Truthy(attr) /\ res.t = "dict" THEN DictGet(res, label) ELSE attr
         IN  IF ~Truthy(child_resource) THEN <<>>
             ELSE IF child_resource.t = "list"
                  THEN Concat([i \in 1..Len(child_resource.v) |->
                                  _recursive_query(rest, child_resource.v[i])])
             ELSE IF rest = <<>> THEN <<child_resource>>
             ELSE _recursive_query(rest, child_resource)

query_resource(res, path) ==
    IF path = <<>> THEN <<res>> ELSE _recursive_query(Split(path), res)

----------------------------------------------------------------------------
(* Compiled definitions and the metadata store. *)

BCP47 == "urn:ietf:bcp:47"

AllowedValue(code, system, display) ==
    [code |-> code, system |-> system, display |-> display]

\* The valueset definitions on disk, by name.
Definitions ==
    [ MaritalStatus |->
        [resource_url |-> "url/marital-status",
         allowed_values |-> << AllowedValue("M", "cs/marital", "Married"),
                               AllowedValue("S", "cs/marital", "Single"),
                               AllowedValue("U", "cs/marital", None),
                               AllowedValue("P", "cs/marital", "Partner"),
                               AllowedValue("T", "cs/null", "Partner") >>],
      Mixed |->
        [resource_url |-> "url/mixed",
         allowed_values |-> << AllowedValue("M", "cs/marital", "Married"),
                               AllowedValue("M", "cs/other", "Male"),
                               AllowedValue("S", "cs/marital", "Single") >>],
      AllLanguages |->
        [resource_url |-> "url/all-languages",
         allowed_values |-> << AllowedValue(BCP47, BCP47, BCP47) >>] ]

\* Metadata.get_valueset: the definition, or None (here NoneV) when no manifest names it.
get_valueset(id_or_name) ==
    IF id_or_name \in DOMAIN Definitions THEN Definitions[id_or_name] ELSE NoneV

\* pycountry's language table: alpha_2 and name of each language.  A lookup that
\* matches nothing, also one of None, is taken to return None.
Languages ==
    { [alpha_2 |-> "en", name |-> "English"],
      [alpha_2 |-> "de", name |-> "German"] }

\* pycountry.languages.get(alpha_2=code); NoneV when nothing matches.
LanguageByCode(code) ==
    IF \E l \in Languages : l.alpha_2 = code
    THEN CHOOSE l \in Languages : l.alpha_2 = code
    ELSE NoneV

\* pycountry.languages.get(name=display)
LanguageByDisplay(display) ==
    IF \E l \in Languages : l.name = display
    THEN CHOOSE l \in Languages : l.name = display
    ELSE NoneV

----------------------------------------------------------------------------
(* Issues and the validators. *)

\* OperationOutcomeIssue.construct(...); location <<>> is a location left unset.
Issue(severity, diagnostics, location) ==
    [severity |-> severity, code |-> "code-invalid",
     diagnostics |-> diagnostics, location |-> location]

\* Validator._add_issue
_add_issue(issues, severity, diagnostics, location) ==
    Append(issues, Issue(severity, diagnostics, location))

\* What a validate call leaves: the validator's issues, the value returned and the
\* exception raised (NoExc when it returned).
Returned(issues, result) == [issues |-> issues, result |-> result, raised |-> NoExc]
Raised(issues, exc) == [issues |-> issues, result |-> FALSE, raised |-> exc]

MatchingValues(definition, code) ==
    SelectSeq(definition.allowed_values, LAMBDA value : value.code = code)

DisplayMatchingValues(definition, display) ==
    SelectSeq(definition.allowed_values, LAMBDA value : value.display = display)

\* A variant of MultipleMatches that is off by one: a single match counts as several.
MultipleMatchesFromOne(matching_values) == Len(matching_values) >= 1

\* len(matching_values) > 1
MultipleMatches(matching_values) == Len(matching_values) > 1

\* A variant of CodeValidator._validate_valueset without its "not found" branch.
CodeValidator_validate_valueset_silent(issues, path, code, valueset) ==
    LET definition == get_valueset(valueset) IN
    IF definition = NoneV THEN Raised(issues, "ValueError")
    ELSE LET matching_values == MatchingValues(definition, code) IN
         IF MultipleMatches(matching_values)
         THEN Raised(issues, "NotImplementedError")
         ELSE Returned(issues, Len(matching_values) = 1)

\* CodeValidator._validate_valueset
CodeValidator_validate_valueset(issues, path, code, valueset) ==
    LET definition == get_valueset(valueset) IN
    IF definition = NoneV THEN Raised(issues, "ValueError")
    ELSE LET matching_values == MatchingValues(definition, code) IN
         IF matching_values = <<>>
         THEN Returned(_add_issue(issues, "error",
                           <<"Code '", Fmt(code), "' not found in valueset '",
                             Fmt(valueset), "'">>,
                           <<path>>), FALSE)
         ELSE IF MultipleMatches(matching_values)
         THEN Raised(issues, "NotImplementedError")
         ELSE Returned(issues, Len(matching_values) = 1)

\* all([valueset, codesystem])
BothGiven(valueset, codesystem) == TruthyStr(valueset) /\ TruthyStr(codesystem)

\* CodeValidator.validate; code is any Python value.
CodeValidator_validate(issues, path, code, valueset, codesystem) ==
    IF ~Truthy(code)
    THEN Returned(_add_issue(issues, "error",
                      <<"Code is missing, null or empty">>, <<path>>), FALSE)
    ELSE IF code.t # "str"
    THEN Returned(_add_issue(issues, "error",
                      <<"Code must be a valid string">>, <<path>>), FALSE)
    ELSE IF BothGiven(valueset, codesystem) THEN Raised(issues, "ValueError")
    ELSE IF TruthyStr(valueset)
    THEN CodeValidator_validate_valueset(issues, path, code.v, valueset)
    ELSE Returned(issues, FALSE)

\* CodingValidator._validate_languages; coding is the Coding's attributes.
CodingValidator_validate_languages(issues, path, coding, valueset) ==
    LET country_by_code == LanguageByCode(coding.code)
        country_by_display == LanguageByDisplay(coding.display)
    IN  IF country_by_code = NoneV /\ country_by_display = NoneV
        THEN Returned(_add_issue(issues, "error",
                          <<"Coding resource code '", Fmt(coding.code),
                            "' not found in valueset '", Fmt(valueset), "'">>,
                          <<path \o <<".", "code">> >>), FALSE)
        ELSE IF country_by_code # NoneV /\ country_by_display = NoneV
        THEN Returned(_add_issue(issues, "error",
                          <<"Coding resource display '", Fmt(coding.display),
                            "' does not match the expected display, expected: '",
                            country_by_code.name, "'">>,
                          <<path \o <<".", "display">> >>), FALSE)
        ELSE IF country_by_display # NoneV /\ country_by_code = NoneV
        THEN Returned(_add_issue(issues, "error",
                          <<"Coding resource code '", Fmt(coding.code),
                            "' does not match the expected code, expected: '",
                            country_by_display.alpha_2, "'">>,
                          <<path \o <<".", "code">> >>), FALSE)
        ELSE Returned(issues, TRUE)

\* The system check that opens CodingValidator._validate_valueset.
SystemMismatch(coding, definition) ==
    TruthyStr(coding.system) /\ coding.system # definition.resource_url

\* all(value["system"] == "urn:ietf:bcp:47" for value in allowed_values)
AllLanguageValues(definition) ==
    \A i \in 1..Len(definition.allowed_values) :
        definition.allowed_values[i].system = BCP47

\* A variant of SuggestsCode that accepts any number of display matches.
SuggestsCodeForAny(display_matching_values) == Len(display_matching_values) >= 1

\* len(display_matching_values) == 1: the display names one allowed value.
SuggestsCode(display_matching_values) == Len(display_matching_values) = 1

\* A variant of DisplayMismatch that does not ask whether a display is present.
DisplayMismatchUnguarded(coding, allowed_value) ==
    allowed_value.display # coding.display

\* resource.display and allowed_value["display"] != resource.display
DisplayMismatch(coding, allowed_value) ==
    TruthyStr(coding.display) /\ allowed_value.display # coding.display

\* CodingValidator._validate_valueset from the literal code lookup on.
CodingValidator_validate_literal(issues, path, coding, valueset, definition) ==
    LET matching_values == MatchingValues(definition, coding.code) IN
    IF matching_values = <<>>
    THEN LET display_matching_values ==
                 DisplayMatchingValues(definition, coding.display)
         IN  IF SuggestsCode(display_matching_values)
             THEN Returned(_add_issue(issues, "warning",
                               <<"Coding resource code '", Fmt(coding.code),
                                 "' not found in valueset '", Fmt(valueset),
                                 "'. Did you mean '",
                                 display_matching_values[1].code, "'?">>,
                               <<path \o <<".", "code">> >>), FALSE)
             ELSE Returned(_add_issue(issues, "error",
                               <<"Coding resource code '", Fmt(coding.code),
                                 "' not found in valueset '", Fmt(valueset), "'">>,
                               <<path \o <<".", "code">> >>), FALSE)
    ELSE IF MultipleMatches(matching_values)
         THEN Raised(issues, "NotImplementedError")
    ELSE LET allowed_value == matching_values[1]
             i1 == IF ~TruthyStr(coding.display)
                   THEN _add_issue(issues, "warning",
                            <<"Coding resource does not have a defined display, expected: '",
                              Fmt(allowed_value.display), "'">>,
                            <<path \o <<".", "display">> >>)
                   ELSE issues
             i2 == IF ~TruthyStr(coding.system)
                   THEN _add_issue(i1, "warning",
                            <<"Coding resource does not have a defined system, expected: '",
                              definition.resource_url, "'">>,
                            <<path \o <<".", "system">> >>)
                   ELSE i1
             i3 == IF DisplayMismatch(coding, allowed_value)
                   THEN _add_issue(i2, "error",
                            <<"Coding resource display '", Fmt(coding.display),
                              "' does not match the expected display, expected: '",
                              Fmt(allowed_value.display), "'">>,
                            <<path \o <<".", "display">> >>)
                   ELSE i2
         IN  Returned(i3, FALSE)

\* A variant of CodingValidator._validate_valueset in which a system mismatch is
\* blocking: it returns right after recording the mismatch.
CodingValidator_validate_valueset_blocking(issues, path, coding, valueset) ==
    LET definition == get_valueset(valueset) IN
    IF definition = NoneV THEN Raised(issues, "ValueError")
    ELSE IF SystemMismatch(coding, definition)
    THEN Returned(_add_issue(issues, "error",
                      <<"Coding system '", Fmt(coding.system),
                        "' does not match the expected system, expected: '",
                        definition.resource_url, "'">>,
                      <<path \o <<".", "system">> >>), FALSE)
    ELSE IF AllLanguageValues(definition)
    THEN CodingValidator_validate_languages(issues, path, coding,
                                            definition.resource_url)
    ELSE CodingValidator_validate_literal(issues, path, coding, valueset, definition)

\* CodingValidator._validate_valueset
CodingValidator_validate_valueset(issues, path, coding, valueset) ==
    LET definition == get_valueset(valueset) IN
    IF definition = NoneV THEN Raised(issues, "ValueError")
    ELSE LET i1 == IF SystemMismatch(coding, definition)
                   THEN _add_issue(issues, "error",
                            <<"Coding system '", Fmt(coding.system),
                              "' does not match the expected system, expected: '",
                              definition.resource_url, "'">>,
                            <<path \o <<".", "system">> >>)
                   ELSE issues
         IN  IF AllLanguageValues(definition)
             THEN CodingValidator_validate_languages(i1, path, coding,
                                                     definition.resource_url)
             ELSE CodingValidator_validate_literal(i1, path, coding, valueset,
                                                   definition)

\* Whether Coding.parse_obj accepts the dict: only a Coding's own fields, each a
\* string or absent.
ParsesAsCoding(res) ==
    /\ res.t = "dict"
    /\ DOMAIN res.v \subseteq CodingFields
    /\ \A f \in DOMAIN res.v : res.v[f].t \in {"str", "none"}

DictField(res, f) ==
    IF f \in DOMAIN res.v /\ res.v[f].t = "str" THEN res.v[f].v ELSE None

\* Coding.parse_obj on a dict it accepts.
ParseCoding(res) ==
    CodingV(DictField(res, "system"), DictField(res, "code"), DictField(res, "display"))

\* CodingValidator.validate; res is any Python value.
CodingValidator_validate(issues, path, res, valueset, codesystem) ==
    IF res.t = "none"
    THEN Returned(_add_issue(issues, "error",
                      <<"Coding resource is missing or null">>, <<path>>), FALSE)
    ELSE IF ~Truthy(res)
    THEN Returned(_add_issue(issues, "error",
                      <<"Coding resource is empty">>, <<path>>), FALSE)
    ELSE IF res.t \notin {"Coding", "dict"}
    THEN Returned(_add_issue(issues, "error",
                      <<"Coding resource is not a valid FHIR Coding resource">>,
                      <<path>>), FALSE)
    ELSE IF res.t = "dict" /\ ~ParsesAsCoding(res)
    THEN Raised(issues, "ValidationError")
    ELSE LET coding == IF res.t = "dict" THEN ParseCoding(res).v ELSE res.v IN
         IF BothGiven(valueset, codesystem) THEN Raised(issues, "ValueError")
         ELSE IF TruthyStr(valueset)
         THEN CodingValidator_validate_valueset(issues, path, coding, valueset)
         ELSE Returned(issues, FALSE)

\* Validator.is_valid
Validator_is_valid(issues) == Len(issues) = 0

----------------------------------------------------------------------------
(* ValidatorStrategy: the per-path issue dict and the fluent calls. *)

\* path in self._issues
HasKey(dict, key) == \E i \in 1..Len(dict) : dict[i].k = key

\* self._issues[path]
Bucket(dict, key) == (CHOOSE e \in {dict[i] : i \in 1..Len(dict)} : e.k = key).v

\* self._issues[path] = value: a new key goes last, a known key keeps its place.
SetKey(dict, key, value) ==
    IF HasKey(dict, key)
    THEN [i \in 1..Len(dict) |->
             IF dict[i].k = key THEN [k |-> key, v |-> value] ELSE dict[i]]
    ELSE Append(dict, [k |-> key, v |-> value])

\* ValidatorStrategy.issues: every bucket's issues, in dict order.
Flattened(dict) == Concat([i \in 1..Len(dict) |-> dict[i].v])

\* issue == other for an other that is a str: a pydantic model never equals a str.
IssueEqualsStr(issue, other) == FALSE

\* path in self.issues: membership in the flattened list of issues.
PathInIssueList(dict, path) ==
    \E i \in 1..Len(Flattened(dict)) : IssueEqualsStr(Flattened(dict)[i], path)

\* if path not in self._issues: self._issues[path] = []
EnsureBucket(dict, path) ==
    IF ~HasKey(dict, path) THEN SetKey(dict, path, <<>>) ELSE dict

\* code(), lines 54-55: if path not in self.issues: self._issues[path] = []
EnsureBucketCode(dict, path) ==
    IF ~PathInIssueList(dict, path) THEN SetKey(dict, path, <<>>) ELSE dict

\* self._issues[path].extend(issues) on a bucket that exists
Extend(dict, path, issues) == SetKey(dict, path, Bucket(dict, path) \o issues)

\* The "... is missing or null" issue of each call; only code() gives a location.
MissingIssue(op, path) ==
    CASE op = "code" ->
            Issue("error", <<"Code resource is missing or null">>, <<path>>)
      [] op = "coding" ->
            Issue("error", <<"Coding resource is missing or null">>, <<>>)
      [] op = "codeable_concept" ->
            Issue("error", <<"CodeableConcept resource is missing or null">>, <<>>)

\* The branch of each call for a path that resolved to nothing.
Missing(dict, op, path, required) ==
    IF required
    THEN Extend(EnsureBucket(dict, path), path, <<MissingIssue(op, path)>>)
    ELSE dict

\* A variant of ChildPath that adds the index for a single value as well.
ChildPathAlwaysIndexed(path, index, count) ==
    path \o <<"[", IndexStr(index), "]">>

\* f"{path}[{index}]" if len(resources) > 1 else path
ChildPath(path, index, count) ==
    IF count > 1 THEN path \o <<"[", IndexStr(index), "]">> ELSE path

\* f"{path}[{resource_index}].coding[{coding_index}]" if len(resources) > 1
\* else f"{path}.coding[{coding_index}]"
ConceptChildPath(path, resource_index, coding_index, count) ==
    IF count > 1
    THEN path \o <<"[", IndexStr(resource_index), "]", ".", "coding",
                   "[", IndexStr(coding_index), "]">>
    ELSE path \o <<".", "coding", "[", IndexStr(coding_index), "]">>

\* What a strategy call has done so far: the dict, the exception that ended it, the
\* paths it handed to validators and every issue those validators recorded.
Progress(dict) == [dict |-> dict, raised |-> NoExc, calls |-> <<>>, recorded |-> <<>>]

\* The loop of code() from its index-th value (0-based) on, with one validator
\* (its issues: vi) for all values.
RECURSIVE CodeLoop(_, _, _, _, _, _, _)
CodeLoop(acc, vi, resources, index, path, valueset, codesystem) ==
    IF index >= Len(resources) THEN [acc EXCEPT !.recorded = vi]
    ELSE LET res == resources[index + 1] IN
         IF res.t # "str"
         THEN [acc EXCEPT !.raised = "AssertionError", !.recorded = vi]
         ELSE LET child_path == ChildPath(path, index, Len(resources))
                  out == CodeValidator_validate(vi, child_path, res, valueset, codesystem)
                  step == [acc EXCEPT !.calls = Append(@, child_path)]
              IN  IF out.raised # NoExc
                  THEN [step EXCEPT !.raised = out.raised, !.recorded = out.issues]
                  ELSE CodeLoop(step, out.issues, resources, index + 1,
                                path, valueset, codesystem)

\* ValidatorStrategy.code
Strategy_code(dict, res, path, valueset, codesystem, required) ==
    LET resources == query_resource(res, path) IN
    IF resources = <<>>
    THEN [Progress(dict) EXCEPT !.dict = Missing(dict, "code", path, required)]
    ELSE LET done == CodeLoop(Progress(dict), <<>>, resources, 0,
                              path, valueset, codesystem)
         IN  IF done.raised = NoExc /\ ~Validator_is_valid(done.recorded)
             THEN [done EXCEPT !.dict =
                      Extend(EnsureBucketCode(dict, path), path, done.recorded)]
             ELSE done

\* One validated coding of coding() and codeable_concept(): a new CodingValidator,
\* its call, and the issues kept when it returned False.
ValidateCoding(acc, path, child_path, coding, valueset, codesystem) ==
    LET out == CodingValidator_validate(<<>>, child_path, coding, valueset, codesystem)
        step == [acc EXCEPT !.calls = Append(@, child_path),
                            !.recorded = @ \o out.issues]
    IN  IF out.raised # NoExc THEN [step EXCEPT !.raised = out.raised]
        ELSE IF out.result = FALSE
        THEN [step EXCEPT !.dict = Extend(EnsureBucket(@, path), path, out.issues)]
        ELSE step

\* The loop of coding() from its index-th value (0-based) on.
RECURSIVE CodingLoop(_, _, _, _, _, _)
CodingLoop(acc, resources, index, path, valueset, codesystem) ==
    IF index >= Len(resources) THEN acc
    ELSE LET res == resources[index + 1] IN
         IF res.t = "dict" /\ ~ParsesAsCoding(res)
         THEN [acc EXCEPT !.raised = "ValidationError"]
         ELSE LET coding_resource == IF res.t = "dict" THEN ParseCoding(res) ELSE res IN
              IF coding_resource.t # "Coding"
              THEN [acc EXCEPT !.raised = "AssertionError"]
              ELSE LET step == ValidateCoding(acc, path,
                                   ChildPath(path, index, Len(resources)),
                                   coding_resource, valueset, codesystem)
                   IN  IF step.raised # NoExc THEN step
                       ELSE CodingLoop(step, resources, index + 1,
                                       path, valueset, codesystem)

\* ValidatorStrategy.coding
Strategy_coding(dict, res, path, valueset, codesystem, required) ==
    LET resources == query_resource(res, path) IN
    IF resources = <<>>
    THEN [Progress(dict) EXCEPT !.dict = Missing(dict, "coding", path, required)]
    ELSE CodingLoop(Progress(dict), resources, 0, path, valueset, codesystem)

ConceptFields == {"coding", "text"}

\* Whether CodeableConcept.parse_obj accepts the dict: only the concept's own
\* fields, coding absent or a list of codings.
ParsesAsConcept(res) ==
    /\ res.t = "dict"
    /\ DOMAIN res.v \subseteq ConceptFields
    /\ "coding" \in DOMAIN res.v =>
          \/ res.v.coding.t = "none"
          \/ /\ res.v.coding.t = "list"
             /\ \A i \in 1..Len(res.v.coding.v) :
                    \/ res.v.coding.v[i].t = "Coding"
                    \/ ParsesAsCoding(res.v.coding.v[i])

\* CodeableConcept.parse_obj on a dict it accepts: each coding parsed as well.
ParseConcept(res) ==
    IF "coding" \in DOMAIN res.v /\ res.v.coding.t = "list"
    THEN ConceptV(ListV([i \in 1..Len(res.v.coding.v) |->
                            IF res.v.coding.v[i].t = "dict"
                            THEN ParseCoding(res.v.coding.v[i])
                            ELSE res.v.coding.v[i]]))
    ELSE ConceptV(NoneV)

\* The inner loop of codeable_concept() over concept.coding.
RECURSIVE ConceptCodingLoop(_, _, _, _, _, _, _, _)
ConceptCodingLoop(acc, codings, coding_index, path, resource_index, count, valueset, codesystem) ==
    IF coding_index >= Len(codings) THEN acc
    ELSE LET step == ValidateCoding(acc, path,
                         ConceptChildPath(path, resource_index, coding_index, count),
                         codings[coding_index + 1], valueset, codesystem)
         IN  IF step.raised # NoExc THEN step
             ELSE ConceptCodingLoop(step, codings, coding_index + 1, path,
                                    resource_index, count, valueset, codesystem)

\* The outer loop of codeable_concept() from its resource_index-th value on.
RECURSIVE ConceptLoop(_, _, _, _, _, _)
ConceptLoop(acc, resources, resource_index, path, valueset, codesystem) ==
    IF resource_index >= Len(resources) THEN acc
    ELSE LET res == resources[resource_index + 1] IN
         IF res.t = "dict" /\ ~ParsesAsConcept(res)
         THEN [acc EXCEPT !.raised = "ValidationError"]
         ELSE LET concept == IF res.t = "dict" THEN ParseConcept(res) ELSE res IN
              IF concept.t # "CodeableConcept"
              THEN [acc EXCEPT !.raised = "AssertionError"]
              ELSE IF concept.v.coding.t # "list"
              THEN [acc EXCEPT !.raised = "TypeError"]
              ELSE LET step == ConceptCodingLoop(acc, concept.v.coding.v, 0, path,
                                   resource_index, Len(resources),
                                   valueset, codesystem)
                   IN  IF step.raised # NoExc THEN step
                       ELSE ConceptLoop(step, resources, resource_index + 1,
                                        path, valueset, codesystem)

\* ValidatorStrategy.codeable_concept
Strategy_codeable_concept(dict, res, path, valueset, codesystem, required) ==
    LET resources == query_resource(res, path) IN
    IF resources = <<>>
    THEN [Progress(dict) EXCEPT
             !.dict = Missing(dict, "codeable_concept", path, required)]
    ELSE ConceptLoop(Progress(dict), resources, 0, path, valueset, codesystem)

\* ValidatorStrategy.is_valid
Strategy_is_valid(dict) ==
    \A i \in 1..Len(Flattened(dict)) :
        Flattened(dict)[i].severity \notin {"error", "fatal"}

----------------------------------------------------------------------------
(* The records validated and the arguments of the calls. *)

P_gender == <<"gender">>
P_maritalStatus == <<"maritalStatus">>
P_link_type == <<"link", ".", "type">>
P_language == <<"communication", ".", "language">>

Paths == {P_gender, P_maritalStatus, P_link_type, P_language}

\* A patient whose every field is valid.
PatientHappy ==
    ElemV([gender |-> StrV("M"),
           maritalStatus |-> CodingV("url/marital-status", "M", "Married"),
           link |-> ListV(<<ElemV([type |-> StrV("S")])>>),
           communication |-> ElemV([language |->
               ConceptV(ListV(<<CodingV("url/all-languages", "en", "English")>>))])])

\* A patient with well-formed fields that hold wrong codes, several of them lists.
PatientInvalid ==
    ElemV([gender |-> StrV("goose"),
           maritalStatus |-> ListV(<<CodingV("url/other", "Married", "Married"),
                                     CodingV("url/marital-status", "M", "Single")>>),
           link |-> ListV(<<ElemV([type |-> StrV("seealsothisone")]),
                            ElemV([type |-> StrV("thisonetoo")])>>),
           communication |-> ListV(<<
               ElemV([language |->
                   ConceptV(ListV(<<CodingV("url/other", "eng", "English"),
                                    CodingV("url/other", "en", "English")>>))]),
               ElemV([language |->
                   ConceptV(ListV(<<CodingV(None, "goose", None)>>))])>>)])

\* A patient with malformed fields: a number as a code, a string as a coding,
\* an empty string inside a list, a dict that is no CodeableConcept.
PatientMalformed ==
    ElemV([gender |-> IntV(5),
           maritalStatus |-> StrV("M"),
           link |-> ListV(<<ElemV([type |-> ListV(<<StrV(""), StrV("goose")>>)])>>),
           communication |-> ElemV([language |-> DictV([value |-> StrV("en")])])])

\* A patient given as plain dicts, with a concept that has no coding list.
PatientDicts ==
    ElemV([gender |-> StrV("S"),
           maritalStatus |-> DictV([code |-> StrV("M"), display |-> StrV("Married")]),
           link |-> ListV(<<DictV([type |-> StrV("goose")]),
                            DictV([type |-> IntV(5)])>>),
           communication |-> DictV([language |-> ConceptV(NoneV)])])

\* A patient with none of the validated fields.
PatientEmpty == ElemV([id |-> StrV("123")])

Resources ==
    {PatientHappy, PatientInvalid, PatientMalformed, PatientDicts, PatientEmpty}

\* The (valueset, codesystem) arguments given to the strategy's calls.
StrategyTerminology ==
    { <<"MaritalStatus", None>>, <<"AllLanguages", None>>, <<"Mixed", None>>,
      <<"Unknown", None>>, <<None, None>>, <<"MaritalStatus", "v3-MaritalStatus">> }

NoCall == [op |-> "none"]

queryVars == <<qrecord, qlast>>

\* No record is under query.
QueryIdle == qrecord = NoneV /\ qlast = NoCall

storeVars == <<_cache, reads, lookups>>

\* Metadata.__init__: nothing is cached and no file has been read.
StoreIdle == _cache = <<>> /\ reads = 0 /\ lookups = <<>>

cliVars == <<factory, hashseed, generated, outdir, glast>>

\* The metadata compiler has not been started.
CliIdle ==
    /\ factory = [_target_packages |-> <<>>, _reference_packages |-> <<>>]
    /\ hashseed = <<>>
    /\ generated = [valuesets |-> <<>>, codesystems |-> <<>>]
    /\ outdir = [kind |-> "absent"]
    /\ glast = NoCall

\* The state outside the strategy and the validators.
toolVars == <<queryVars, storeVars, cliVars>>
ToolsIdle == QueryIdle /\ StoreIdle /\ CliIdle

Init ==
    /\ resource \in Resources
    /\ _issues = <<>>
    /\ raised = NoExc
    /\ last = NoCall
    /\ ncalls = 0
    /\ vkind = "code"
    /\ vissues = <<>>
    /\ vlast = NoCall
    /\ nvalidate = 0
    /\ ToolsIdle

validatorVars == <<vkind, vissues, vlast, nvalidate>>
strategyVars == <<resource, _issues, raised, last, ncalls>>

\* A call of the chain: it runs when no earlier call of the chain raised.
Call(op, path, valueset, codesystem, required, done) ==
    /\ raised = NoExc
    /\ ncalls < MaxCalls
    /\ _issues' = done.dict
    /\ raised' = done.raised
    /\ last' = [op |-> op, path |-> path, valueset |-> valueset,
                codesystem |-> codesystem, required |-> required,
                resources |-> query_resource(resource, path),
                before |-> _issues, calls |-> done.calls,
                recorded |-> done.recorded]
    /\ ncalls' = ncalls + 1
    /\ UNCHANGED <<resource, validatorVars, toolVars>>

\* validator.code(path, valueset, codesystem, required)
code ==
    \E path \in Paths, term \in StrategyTerminology, required \in BOOLEAN :
        Call("code", path, term[1], term[2], required,
             Strategy_code(_issues, resource, path, term[1], term[2], required))

\* validator.coding(path, valueset, codesystem, required)
coding ==
    \E path \in Paths, term \in StrategyTerminology, required \in BOOLEAN :
        Call("coding", path, term[1], term[2], required,
             Strategy_coding(_issues, resource, path, term[1], term[2], required))

\* validator.codeable_concept(path, valueset, codesystem, required)
codeable_concept ==
    \E path \in Paths, term \in StrategyTerminology, required \in BOOLEAN :
        Call("codeable_concept", path, term[1], term[2], required,
             Strategy_codeable_concept(_issues, resource, path, term[1], term[2],
                                       required))

\* FHIRGuard.validator(resource): a new ValidatorStrategy.
validator ==
    /\ resource' \in Resources
    /\ _issues' = <<>>
    /\ raised' = NoExc
    /\ last' = NoCall
    /\ ncalls' = 0
    /\ UNCHANGED <<validatorVars, toolVars>>

Next == code \/ coding \/ codeable_concept \/ validator

Spec == Init /\ [][Next]_vars

----------------------------------------------------------------------------
(* The validators used directly. *)

\* The values given to CodeValidator.validate.
CodeInputs == {StrV("M"), StrV("S"), StrV("goose"), StrV(""), NoneV, IntV(5)}

CodingSystems == {None, "url/marital-status", "url/all-languages", "url/other"}
CodingCodes == {None, "M", "U", "goose", "en"}
CodingDisplays == {None, "", "Married", "Partner", "English", "German"}

\* The values given to CodingValidator.validate: Coding instances, and values
\* that are none.
CodingInputs ==
    {CodingV(system, c, display) :
        system \in CodingSystems, c \in CodingCodes, display \in CodingDisplays}
    \cup {NoneV, EmptyDictV, StrV("M"),
          DictV([code |-> StrV("M"), display |-> StrV("Married")]),
          DictV([code |-> IntV(5)])}

ValuesetArgs == {None, "MaritalStatus", "Mixed", "AllLanguages", "Unknown"}
CodesystemArgs == {None, "v3-MaritalStatus"}

\* CodeValidator(metadata) or CodingValidator(metadata)
NewValidator ==
    /\ vkind' \in {"code", "coding"}
    /\ vissues' = <<>>
    /\ vlast' = NoCall
    /\ nvalidate' = 0
    /\ UNCHANGED <<strategyVars, toolVars>>

Validate(path, value, valueset, codesystem, out) ==
    /\ nvalidate < MaxValidate
    /\ vissues' = out.issues
    /\ vlast' = [op |-> vkind, path |-> path, value |-> value,
                 valueset |-> valueset, codesystem |-> codesystem,
                 before |-> vissues, result |-> out.result, raised |-> out.raised]
    /\ nvalidate' = nvalidate + 1
    /\ UNCHANGED <<vkind, strategyVars, toolVars>>

\* CodeValidator.validate(path, code, valueset, codesystem)
CodeValidate ==
    /\ vkind = "code"
    /\ \E value \in CodeInputs, valueset \in ValuesetArgs, codesystem \in CodesystemArgs :
          Validate(P_gender, value, valueset, codesystem,
                   CodeValidator_validate(vissues, P_gender, value, valueset, codesystem))

\* CodingValidator.validate(path, resource, valueset, codesystem)
CodingValidate ==
    /\ vkind = "coding"
    /\ \E value \in CodingInputs, valueset \in ValuesetArgs,
          codesystem \in CodesystemArgs :
          Validate(P_maritalStatus, value, valueset, codesystem,
                   CodingValidator_validate(vissues, P_maritalStatus, value,
                                            valueset, codesystem))

InitValidator ==
    /\ resource = PatientEmpty
    /\ _issues = <<>>
    /\ raised = NoExc
    /\ last = NoCall
    /\ ncalls = 0
    /\ vkind \in {"code", "coding"}
    /\ vissues = <<>>
    /\ vlast = NoCall
    /\ nvalidate = 0
    /\ ToolsIdle

NextValidator == CodeValidate \/ CodingValidate \/ NewValidator

SpecValidator == InitValidator /\ [][NextValidator]_vars

----------------------------------------------------------------------------
(* Properties of the ValidatorStrategy, checked under Spec. *)

IsPrefix(s, t) == Len(s) <= Len(t) /\ SubSeq(t, 1, Len(s)) = s

\* The keys of an insertion-ordered dict, in order.
Keys(dict) == [i \in 1..Len(dict) |-> dict[i].k]

\* The issues of seq from its (n+1)-th on.
After(seq, n) == SubSeq(seq, n + 1, Len(seq))

\* A valueset was named that exists, and no codesystem.
OnlyValuesetGiven(call) ==
    /\ call.valueset \in DOMAIN Definitions
    /\ call.codesystem = None

\* No code occurs twice among the definition's allowed values.
CodesUnique(definition) ==
    \A i, j \in 1..Len(definition.allowed_values) :
        definition.allowed_values[i].code = definition.allowed_values[j].code => i = j

\* C1: a call never replaces or clears a bucket: the paths that had a bucket
\* before the call keep their place in the dict, and each of those buckets still
\* starts with the issues it held, so the flattened list keeps every earlier issue
\* ahead of the later ones of its path.
C1_BucketsOnlyGrow ==
    last.op # "none" =>
        /\ IsPrefix(Keys(last.before), Keys(_issues))
        /\ \A i \in 1..Len(last.before) :
               i <= Len(_issues) /\ IsPrefix(last.before[i].v, _issues[i].v)

\* C4: with an existing valueset (a definition without repeated codes) and no
\* codesystem, no value found at the path makes a call end with an exception.
C4_NoValueRaises ==
    (/\ last.op # "none"
     /\ OnlyValuesetGiven(last)
     /\ CodesUnique(Definitions[last.valueset]))
        => raised = NoExc

\* C6: for a path that resolves to no value, a required call adds exactly one
\* error issue, located at that path, to the path's bucket, and a call that is
\* not required leaves the issues as they were.
C6_MissingOrNull ==
    (last.op # "none" /\ last.resources = <<>>) =>
        IF last.required
        THEN /\ HasKey(_issues, last.path)
             /\ LET old == IF HasKey(last.before, last.path)
                           THEN Bucket(last.before, last.path) ELSE <<>>
                    new == Bucket(_issues, last.path)
                IN  /\ Len(new) = Len(old) + 1
                    /\ IsPrefix(old, new)
                    /\ new[Len(new)].severity = "error"
                    /\ new[Len(new)].location = <<last.path>>
             /\ Len(Flattened(_issues)) = Len(Flattened(last.before)) + 1
        ELSE _issues = last.before

\* The paths code() and coding() are to hand on for count resolved values.
IndexedPaths(path, count) ==
    [i \in 1..count |->
        IF count = 1 THEN path ELSE path \o <<"[", IndexStr(i - 1), "]">>]

\* The codings of the j-th resolved concept, <<>> when it has no list of codings.
CodingsOf(res) ==
    LET concept == IF ParsesAsConcept(res) THEN ParseConcept(res) ELSE res IN
    IF concept.t = "CodeableConcept" /\ concept.v.coding.t = "list"
    THEN concept.v.coding.v ELSE <<>>

\* The paths codeable_concept() is to hand on for the resolved concepts.
ConceptPaths(path, resources) ==
    Concat([j \in 1..Len(resources) |->
        [i \in 1..Len(CodingsOf(resources[j])) |->
            IF Len(resources) = 1
            THEN path \o <<".", "coding", "[", IndexStr(i - 1), "]">>
            ELSE path \o <<"[", IndexStr(j - 1), "]", ".", "coding",
                           "[", IndexStr(i - 1), "]">>]])

ExpectedPaths(call) ==
    IF call.op = "codeable_concept"
    THEN ConceptPaths(call.path, call.resources)
    ELSE IndexedPaths(call.path, Len(call.resources))

\* C7: the paths handed to the validators are the bare path for one resolved
\* value and path[0] .. path[n-1], in input order, for n > 1 values; for
\* codeable_concept they are path.coding[i] for one concept and
\* path[j].coding[i] for several.  A call that an exception ends has handed on
\* the first of these paths.
C7_IndexedChildPaths ==
    (last.op # "none" /\ last.resources # <<>>) =>
        /\ IsPrefix(last.calls, ExpectedPaths(last))
        /\ raised = NoExc => last.calls = ExpectedPaths(last)

\* C7 happens: several concepts with several codings were validated.
C7_Witness ==
    /\ last.op = "codeable_concept"
    /\ raised = NoExc
    /\ Len(last.resources) > 1
    /\ Len(last.calls) > 2

----------------------------------------------------------------------------
(* Properties of the validators, checked under SpecValidator. *)

\* The issues the last validate call recorded.
NewIssues == After(vissues, Len(vlast.before))

\* The string diagnostics holds the string part.
Mentions(diagnostics, part) == \E i \in 1..Len(diagnostics) : diagnostics[i] = part

\* How many allowed values of the definition have this code.
CodeOccurrences(definition, c) ==
    Cardinality({i \in 1..Len(definition.allowed_values) :
                    definition.allowed_values[i].code = c})

\* How many allowed values of the definition have this display.
DisplayOccurrences(definition, display) ==
    Cardinality({i \in 1..Len(definition.allowed_values) :
                    definition.allowed_values[i].display = display})

\* The last call was CodeValidator.validate(path, code, valueset) of a string.
CodeCall ==
    /\ vlast.op = "code"
    /\ OnlyValuesetGiven(vlast)
    /\ vlast.value.t = "str"

\* The call returned False and recorded one "not found" error at its path.
OneNotFoundError ==
    /\ vlast.raised = NoExc
    /\ vlast.result = FALSE
    /\ IsPrefix(vlast.before, vissues)
    /\ Len(NewIssues) = 1
    /\ NewIssues[1].severity = "error"
    /\ NewIssues[1].code = "code-invalid"
    /\ NewIssues[1].location = <<vlast.path>>
    /\ Mentions(NewIssues[1].diagnostics, vlast.value.v)
    /\ Mentions(NewIssues[1].diagnostics, vlast.valueset)

\* C2 as stated: every code that is the code of no allowed value gets exactly one
\* error, code-invalid, at [path], whose diagnostics hold the code and the
\* valueset name, and validate returns false.
C2_AbsentCodeOneError ==
    (CodeCall /\ CodeOccurrences(Definitions[vlast.valueset], vlast.value.v) = 0)
        => OneNotFoundError

\* C2 amended: the same for every non-empty code.
C2_AbsentNonEmptyCodeOneError ==
    (/\ CodeCall
     /\ vlast.value.v # ""
     /\ CodeOccurrences(Definitions[vlast.valueset], vlast.value.v) = 0)
        => OneNotFoundError

\* C2 happens: a code that the valueset does not hold was validated.
C2_Witness ==
    /\ vlast.op = "code"
    /\ vlast.value = StrV("goose")
    /\ vlast.valueset = "MaritalStatus"
    /\ vlast.codesystem = None
    /\ Len(vissues) > Len(vlast.before)

\* The call completed, returned True and recorded no error.
ValidNoError ==
    /\ vlast.raised = NoExc
    /\ vlast.result = TRUE
    /\ IsPrefix(vlast.before, vissues)
    /\ \A i \in 1..Len(NewIssues) : NewIssues[i].severity \notin {"error", "fatal"}

\* C3 as stated: for every code that is the code of one of the allowed values,
\* validate completes, returns true and records no error.
C3_PresentCodeValid ==
    (CodeCall /\ CodeOccurrences(Definitions[vlast.valueset], vlast.value.v) >= 1)
        => ValidNoError

\* C3 amended: the same for every code that is the code of exactly one allowed
\* value.
C3_UniqueCodeValid ==
    (CodeCall /\ CodeOccurrences(Definitions[vlast.valueset], vlast.value.v) = 1)
        => ValidNoError

\* C3 happens: a code that the valueset holds once was validated.
C3_Witness ==
    /\ CodeCall
    /\ CodeOccurrences(Definitions[vlast.valueset], vlast.value.v) = 1
    /\ vlast.result = TRUE

\* C5: with both a valueset and a codesystem given, CodeValidator.validate and
\* CodingValidator.validate signal the configuration error for every value.
C5_BothGivenRaises ==
    (/\ vlast.op \in {"code", "coding"}
     /\ vlast.valueset # None
     /\ vlast.codesystem # None)
        => vlast.raised = "ValueError"

\* The last call was CodingValidator.validate(path, coding, valueset) of a Coding
\* against a valueset that is not all BCP-47 entries.
LiteralCodingCall ==
    /\ vlast.op = "coding"
    /\ OnlyValuesetGiven(vlast)
    /\ vlast.value.t = "Coding"
    /\ \E i \in 1..Len(Definitions[vlast.valueset].allowed_values) :
           Definitions[vlast.valueset].allowed_values[i].system # BCP47

\* The issues of seq located at path.field
IssuesAt(seq, path, field) ==
    SelectSeq(seq, LAMBDA issue : issue.location = <<path \o <<".", field>> >>)

\* C8: a coding whose system is present and differs from the definition's
\* resource_url gets an error at path.system, followed by exactly the issues, and
\* the same outcome, that the coding gets with the definition's resource_url as
\* its system.
C8_SystemMismatchNonBlocking ==
    (/\ vlast.op = "coding"
     /\ OnlyValuesetGiven(vlast)
     /\ vlast.value.t = "Coding"
     /\ vlast.value.v.system \notin {None, ""}
     /\ vlast.value.v.system # Definitions[vlast.valueset].resource_url)
        => LET url == Definitions[vlast.valueset].resource_url
               same == CodingValidator_validate(<<>>, vlast.path,
                           CodingV(url, vlast.value.v.code, vlast.value.v.display),
                           vlast.valueset, vlast.codesystem)
           IN  /\ IsPrefix(vlast.before, vissues)
               /\ Len(NewIssues) = Len(same.issues) + 1
               /\ NewIssues[1].severity = "error"
               /\ NewIssues[1].location = <<vlast.path \o <<".", "system">> >>
               /\ After(NewIssues, 1) = same.issues
               /\ vlast.raised = same.raised
               /\ vlast.result = same.result

\* C8 happens: a coding with a foreign system also got a code or display issue.
C8_Witness ==
    /\ vlast.op = "coding"
    /\ vlast.valueset = "MaritalStatus"
    /\ vlast.codesystem = None
    /\ vlast.value.t = "Coding"
    /\ vlast.value.v.system = "url/other"
    /\ Len(NewIssues) = 2

\* C9: on the non-language path, a coding whose code matches no allowed value
\* gets one issue at path.code: a warning naming the code of the allowed value
\* whose display equals the input display when there is exactly one such value,
\* and otherwise the error "code not found".
C9_DisplaySuggestion ==
    (/\ LiteralCodingCall
     /\ CodeOccurrences(Definitions[vlast.valueset], vlast.value.v.code) = 0)
        => LET definition == Definitions[vlast.valueset]
               display == vlast.value.v.display
               at_code == IssuesAt(NewIssues, vlast.path, "code")
           IN  /\ vlast.raised = NoExc
               /\ Len(at_code) = 1
               /\ IF DisplayOccurrences(definition, display) = 1
                  THEN /\ at_code[1].severity = "warning"
                       /\ Mentions(at_code[1].diagnostics, "'. Did you mean '")
                       /\ \E i \in 1..Len(definition.allowed_values) :
                              /\ definition.allowed_values[i].display = display
                              /\ Mentions(at_code[1].diagnostics,
                                          definition.allowed_values[i].code)
                  ELSE /\ at_code[1].severity = "error"
                       /\ ~Mentions(at_code[1].diagnostics, "'. Did you mean '")
                       /\ Mentions(at_code[1].diagnostics, "' not found in valueset '")

\* C9 happens: two allowed values have the display of a coding with an unknown code.
C9_Witness ==
    /\ LiteralCodingCall
    /\ vlast.value.v.code = "goose"
    /\ DisplayOccurrences(Definitions[vlast.valueset], vlast.value.v.display) = 2
    /\ Len(NewIssues) > 0

\* The number of the conditions that hold.
Count(conditions) == Cardinality({i \in 1..Len(conditions) : conditions[i]})

\* C10: on the non-language path, a coding whose code matches exactly one
\* allowed value gets a warning citing the expected display when it has no
\* display, a warning citing the expected system when it has no system, an error
\* when its display is present and differs, and no issue when its display and
\* system are the expected ones; besides these it gets only the system error.
C10_ExactCodeMatch ==
    (/\ LiteralCodingCall
     /\ CodeOccurrences(Definitions[vlast.valueset], vlast.value.v.code) = 1)
        => LET definition == Definitions[vlast.valueset]
               c == vlast.value.v
               allowed == CHOOSE value \in
                              {definition.allowed_values[i] :
                                  i \in 1..Len(definition.allowed_values)} :
                              value.code = c.code
               no_display == c.display \in {None, ""}
               no_system == c.system \in {None, ""}
               other_display == ~no_display /\ c.display # allowed.display
               other_system == ~no_system /\ c.system # definition.resource_url
               at_display == IssuesAt(NewIssues, vlast.path, "display")
               at_system == IssuesAt(NewIssues, vlast.path, "system")
           IN  /\ vlast.raised = NoExc
               /\ no_display =>
                      /\ Len(at_display) = 1
                      /\ at_display[1].severity = "warning"
                      /\ Mentions(at_display[1].diagnostics, Fmt(allowed.display))
               /\ no_system =>
                      /\ Len(at_system) = 1
                      /\ at_system[1].severity = "warning"
                      /\ Mentions(at_system[1].diagnostics, definition.resource_url)
               /\ other_display =>
                      /\ Len(at_display) = 1
                      /\ at_display[1].severity = "error"
               /\ (c.display = allowed.display /\ ~no_display
                      /\ c.system = definition.resource_url) => NewIssues = <<>>
               /\ Len(NewIssues) =
                      Count(<<no_display, no_system, other_display, other_system>>)

\* C10 happens: a coding with a known code, no system and a wrong display.
C10_Witness ==
    /\ LiteralCodingCall
    /\ vlast.value = CodingV(None, "M", "Partner")
    /\ vlast.valueset = "MaritalStatus"
    /\ Len(NewIssues) = 2

\* A coding was validated against a valueset made entirely of BCP-47 entries.
LanguageCodingCall ==
    /\ vlast.op = "coding"
    /\ OnlyValuesetGiven(vlast)
    /\ vlast.value.t = "Coding"
    /\ \A i \in 1..Len(Definitions[vlast.valueset].allowed_values) :
           Definitions[vlast.valueset].allowed_values[i].system = BCP47

\* C11: against a valueset made entirely of BCP-47 entries, a coding gets no
\* issue at path.code or path.display only when its code and its display resolve
\* to the same language; a code that resolves while the display does not gets one
\* error at path.display naming the expected display, a display that resolves
\* while the code does not gets one error at path.code naming the expected code,
\* and when neither resolves the error at path.code says "code not found".
C11_LanguageCrossReference ==
    LanguageCodingCall
        => LET c == vlast.value.v
               by_code == {l \in Languages : l.alpha_2 = c.code}
               by_display == {l \in Languages : l.name = c.display}
               at_code == IssuesAt(NewIssues, vlast.path, "code")
               at_display == IssuesAt(NewIssues, vlast.path, "display")
           IN  /\ vlast.raised = NoExc
               /\ (at_code = <<>> /\ at_display = <<>>)
                      => (by_code # {} /\ by_code = by_display)
               /\ (by_code # {} /\ by_display = {}) =>
                      /\ at_code = <<>>
                      /\ Len(at_display) = 1
                      /\ at_display[1].severity = "error"
                      /\ \E l \in by_code : Mentions(at_display[1].diagnostics, l.name)
               /\ (by_display # {} /\ by_code = {}) =>
                      /\ at_display = <<>>
                      /\ Len(at_code) = 1
                      /\ at_code[1].severity = "error"
                      /\ \E l \in by_display : Mentions(at_code[1].diagnostics, l.alpha_2)
               /\ (by_code = {} /\ by_display = {}) =>
                      /\ at_display = <<>>
                      /\ Len(at_code) = 1
                      /\ at_code[1].severity = "error"
                      /\ Mentions(at_code[1].diagnostics, "' not found in valueset '")

----------------------------------------------------------------------------
(* The path accessor on its own: query_resource over records with lists. *)

MaxItems == 2

\* The elements a list of codings is made of: dicts and Coding instances, with a
\* display, with an empty display, without one, and with a list of their own.
QueryItems ==
    { DictV([code |-> StrV("A"), display |-> StrV("Annulled")]),
      DictV([code |-> StrV("D"), display |-> StrV("")]),
      DictV([code |-> StrV("C")]),
      CodingV(None, "D", "Divorced"),
      DictV([code |-> StrV("E"),
             extension |-> ListV(<< DictV([url |-> StrV("u1")]),
                                    DictV([url |-> StrV("u2")]) >>)]) }

RECURSIVE SeqsUpTo(_, _)
\* The sequences over items of length at most n.
SeqsUpTo(items, n) ==
    IF n = 0 THEN {<<>>}
    ELSE LET shorter == SeqsUpTo(items, n - 1)
         IN  shorter \cup {Append(seq, item) : seq \in shorter, item \in items}

\* Patient.construct(id="123", maritalStatus={"coding": [...], "text": ...})
QueryRecords ==
    { ElemV([id |-> StrV("123"),
             maritalStatus |-> DictV([coding |-> ListV(codings),
                                      text |-> StrV("Annulled or Divorced")])]) :
        codings \in SeqsUpTo(QueryItems, MaxItems) }

QueryPaths ==
    { <<>>,
      <<"id">>,
      <<"maritalStatus", ".", "text">>,
      <<"maritalStatus", ".", "coding">>,
      <<"maritalStatus", ".", "coding", ".", "code">>,
      <<"maritalStatus", ".", "coding", ".", "display">>,
      <<"maritalStatus", ".", "coding", ".", "extension">>,
      <<"maritalStatus", ".", "coding", ".", "extension", ".", "url">> }

\* query_resource(record, path)
Query ==
    /\ qlast = NoCall
    /\ \E path \in QueryPaths :
           qlast' = [op |-> "query", path |-> path,
                     result |-> query_resource(qrecord, path)]
    /\ UNCHANGED <<qrecord, strategyVars, validatorVars, storeVars, cliVars>>

\* No strategy and no validator is in use.
ChainIdle ==
    /\ resource = PatientEmpty
    /\ _issues = <<>>
    /\ raised = NoExc
    /\ last = NoCall
    /\ ncalls = 0
    /\ vkind = "code"
    /\ vissues = <<>>
    /\ vlast = NoCall
    /\ nvalidate = 0

\* A record is constructed.
InitQuery ==
    /\ ChainIdle
    /\ StoreIdle
    /\ CliIdle
    /\ qrecord \in QueryRecords
    /\ qlast = NoCall

NextQuery == Query

SpecQuery == InitQuery /\ [][NextQuery]_vars

\* The value of a field of a record, NoneV when the record has no such field.
FieldOf(node, label) ==
    CASE node.t \in {"elem", "CodeableConcept", "dict"} ->
            IF label \in DOMAIN node.v THEN node.v[label] ELSE NoneV
      [] node.t = "Coding" ->
            IF label \in CodingFields /\ node.v[label] # None
            THEN StrV(node.v[label]) ELSE NoneV
      [] OTHER -> NoneV

RECURSIVE ValuesAt(_, _)
\* The values the labels lead to from node, every list on the way replaced by
\* its elements in order.
ValuesAt(labels, node) ==
    IF node.t = "list"
    THEN Concat([i \in 1..Len(node.v) |-> ValuesAt(labels, node.v[i])])
    ELSE IF labels = <<>> THEN <<node>>
    ELSE LET child == FieldOf(node, Head(labels))
         IN  IF child = NoneV THEN <<>> ELSE ValuesAt(Tail(labels), child)

\* C12: query_resource(record, "") is [record], and for a dotted path the result
\* holds the value of every list element the path reaches, lists flattened at
\* every level, in the element order of the record.
C12_FlattenedInOrder ==
    qlast # NoCall =>
        IF qlast.path = <<>>
        THEN qlast.result = <<qrecord>>
        ELSE qlast.result = ValuesAt(Split(qlast.path), qrecord)

----------------------------------------------------------------------------
(* The metadata store: the manifests, the definition files and the cache.   *)
(* An id or name is the sequence of its "/"-separated segments.             *)

MaxLookups == 3

\* Metadata.manifests: per metadata directory, id -> hash and name -> hash.
Manifests ==
    << [path |-> "metadata",
        valuesets |-> [id |-> (<<"marital-status">> :> "a1"),
                       name |-> (<<"MaritalStatus">> :> "a1")],
        codesystems |-> [id |-> (<<"v3-MaritalStatus">> :> "b2"),
                         name |-> (<<"MaritalStatusCodes">> :> "b2")]] >>

\* "http" in id_or_name
HasHttp(id_or_name) ==
    \E i \in 1..Len(id_or_name) : id_or_name[i] \in {"http:", "https:", "http-codes"}

RECURSIVE _get_resource_path(_, _)
\* Metadata._get_resource_path: a Path, None, or the RecursionError that ends a
\* fallback which keeps calling itself with the same identifier.
_get_resource_path(id_or_name, resource_type) ==
    LET named == SelectSeq(Manifests, LAMBDA manifest :
                     id_or_name \in DOMAIN manifest[resource_type].id
                                    \cup DOMAIN manifest[resource_type].name)
    IN  IF named # <<>>
        THEN LET by == named[1][resource_type]
                 file_hash == IF id_or_name \in DOMAIN by.id
                              THEN by.id[id_or_name] ELSE by.name[id_or_name]
             IN  [t |-> "Path", dir |-> named[1].path,
                  type |-> resource_type, hash |-> file_hash]
        ELSE IF HasHttp(id_or_name)
        THEN IF Len(id_or_name) = 1
             THEN [t |-> "raise", exc |-> "RecursionError"]
             ELSE _get_resource_path(<<id_or_name[Len(id_or_name)]>>, resource_type)
        ELSE NoneV

\* json.loads(file_path.read_text())
ReadDefinition(file_path) ==
    IF file_path.type = "valuesets"
    THEN Definitions.MaritalStatus
    ELSE [resource_url |-> "cs/marital", concepts |-> <<[code |-> "M"], [code |-> "S"]>>]

\* A cache key: the Path itself, or str(file_path).
CacheKey(kind, file_path) == [kind |-> kind, path |-> file_path]

\* What a lookup leaves: the cache, the value returned, the exception raised and
\* the number of files it read.
Looked(cache, result, exc, read) ==
    [cache |-> cache, result |-> result, raised |-> exc, read |-> read]

\* Metadata.get_codesystem
Metadata_get_codesystem(cache, id_or_name) ==
    LET file_path == _get_resource_path(id_or_name, "codesystems") IN
    IF file_path.t = "raise" THEN Looked(cache, NoneV, file_path.exc, 0)
    ELSE IF file_path = NoneV THEN Looked(cache, NoneV, NoExc, 0)
    ELSE IF HasKey(cache, CacheKey("Path", file_path))
    THEN Looked(cache, Bucket(cache, CacheKey("Path", file_path)), NoExc, 0)
    ELSE LET codesystem == ReadDefinition(file_path)
         IN  Looked(SetKey(cache, CacheKey("Path", file_path), codesystem),
                    codesystem, NoExc, 1)

\* Metadata.get_valueset: the cache is asked for the Path and filled, and read,
\* under str(file_path).
Metadata_get_valueset(cache, id_or_name) ==
    LET file_path == _get_resource_path(id_or_name, "valuesets") IN
    IF file_path.t = "raise" THEN Looked(cache, NoneV, file_path.exc, 0)
    ELSE IF file_path = NoneV THEN Looked(cache, NoneV, NoExc, 0)
    ELSE IF HasKey(cache, CacheKey("Path", file_path))
    THEN IF HasKey(cache, CacheKey("str", file_path))
         THEN Looked(cache, Bucket(cache, CacheKey("str", file_path)), NoExc, 0)
         ELSE Looked(cache, NoneV, "KeyError", 0)
    ELSE LET valueset == ReadDefinition(file_path)
         IN  Looked(SetKey(cache, CacheKey("str", file_path), valueset),
                    valueset, NoExc, 1)

\* The ids, names and urls looked up.
LookupIds ==
    { <<"marital-status">>, <<"MaritalStatus">>, <<"v3-MaritalStatus">>,
      <<"MaritalStatusCodes">>, <<"Unknown">>,
      <<"http:", "", "hl7.org", "ValueSet", "marital-status">>,
      <<"http:", "", "hl7.org", "CodeSystem", "v3-MaritalStatus">>,
      <<"http:", "", "hl7.org", "">>,
      <<"http-codes">> }

\* One lookup on the Metadata instance.
Lookup(op, id_or_name, out) ==
    /\ Len(lookups) < MaxLookups
    /\ _cache' = out.cache
    /\ reads' = reads + out.read
    /\ lookups' = Append(lookups, [op |-> op, id |-> id_or_name, result |-> out.result,
                                   raised |-> out.raised, read |-> out.read])
    /\ UNCHANGED <<strategyVars, validatorVars, queryVars, cliVars>>

GetCodesystem ==
    \E id_or_name \in LookupIds :
        Lookup("get_codesystem", id_or_name, Metadata_get_codesystem(_cache, id_or_name))

GetValueset ==
    \E id_or_name \in LookupIds :
        Lookup("get_valueset", id_or_name, Metadata_get_valueset(_cache, id_or_name))

InitStore == ChainIdle /\ QueryIdle /\ CliIdle /\ StoreIdle

NextStore == GetCodesystem \/ GetValueset

SpecStore == InitStore /\ [][NextStore]_vars

\* The lookup found a definition.
Successful(lookup) == lookup.raised = NoExc /\ lookup.result # NoneV

\* C13: for get_valueset and get_codesystem alike, the first successful lookup
\* of an id or name reads the definition file and leaves it in the cache, and
\* every later lookup of that id or name returns the same definition without
\* reading a file.
C13_ReadThroughCache ==
    \A j \in 1..Len(lookups) :
        Successful(lookups[j]) =>
            LET earlier == {i \in 1..(j - 1) :
                               /\ lookups[i].op = lookups[j].op
                               /\ lookups[i].id = lookups[j].id
                               /\ Successful(lookups[i])}
            IN  IF earlier = {}
                THEN /\ \/ lookups[j].read = 1
                        \/ \E i \in 1..(j - 1) : lookups[i].result = lookups[j].result
                     /\ \E k \in 1..Len(_cache) : _cache[k].v = lookups[j].result
                ELSE /\ lookups[j].read = 0
                     /\ \A i \in earlier : lookups[i].result = lookups[j].result

----------------------------------------------------------------------------
(* The metadata compiler: the packages it discovers, the relationship        *)
(* matchers (fhirguard_cli/metadata/relationships.py) and the Definition it  *)
(* writes (fhirguard_cli/commands/metadata.py).  JSON objects are DictV      *)
(* values; the attributes of a resource are the fields of a record.          *)

\* A concept of a CodeSystem, without and with child concepts.
Leaf(c, display) == DictV([code |-> StrV(c), display |-> StrV(display)])
Parent(c, display, children) ==
    DictV([code |-> StrV(c), display |-> StrV(display), concept |-> ListV(children)])

\* CodeSystem.construct(**data)
CodeSystem(id, url, supplements, concept) ==
    [id |-> id, name |-> id, url |-> url, version |-> None,
     supplements |-> supplements, valueSet |-> None,
     concept |-> concept, property |-> NoneV, filter |-> NoneV]

\* ValueSet.construct(**data)
ValueSet(id, url, compose, expansion) ==
    [id |-> id, name |-> id, url |-> url, description |-> None,
     compose |-> compose, expansion |-> expansion]

\* compose: {"include": [...]}
Compose(includes) == DictV([include |-> ListV(includes)])

\* One include: a system alone, a system with a concept subset, value sets.
IncludeSystem(system) == DictV([system |-> StrV(system)])
IncludeSubset(system, codes) ==
    DictV([system |-> StrV(system),
           concept |-> ListV([i \in 1..Len(codes) |-> DictV([code |-> StrV(codes[i])])])])
IncludeValueSets(urls) ==
    DictV([valueSet |-> ListV([i \in 1..Len(urls) |-> StrV(urls[i])])])

\* An entry of expansion.contains.
Contains(system, c, display) ==
    DictV([system |-> StrV(system), code |-> StrV(c), display |-> StrV(display)])

\* A concept with a definition text.
Defined(c, display, definition) ==
    DictV([code |-> StrV(c), display |-> StrV(display), definition |-> StrV(definition)])

\* The marital status hierarchy: M > P > C, and S.
MaritalConcepts ==
    ListV(<< Parent("M", "Married",
                 << Parent("P", "Partner", << Leaf("C", "Cohabiting") >>) >>),
             Defined("S", "Single", "Never married") >>)

\* A CodeSystem that supplements the CodeSystem at url base.
Supplement(id, url, base, concept, property) ==
    [id |-> id, name |-> id, url |-> url, version |-> None,
     supplements |-> base, valueSet |-> None,
     concept |-> concept, property |-> property, filter |-> NoneV]

\* A property declared by a CodeSystem.
Property(c) == DictV([code |-> StrV(c), type |-> StrV("code")])

\* {"name": "version", "valueUri": "<uri>|<version>"}; the valueUri is kept as
\* the sequence of its "|"-separated parts.
VersionParameter(parts) ==
    DictV([name |-> StrV("version"), valueUri |-> [t |-> "uri", v |-> parts]])

\* An entry of expansion.contains that groups others.
Group(c, abstract, contains) ==
    DictV([system |-> StrV("cs/tests"), code |-> StrV(c), abstract |-> abstract,
           contains |-> ListV(contains)])

\* The laboratory tests: T1 > T11, and T2.
TestConcepts ==
    ListV(<< Parent("T1", "First", << Leaf("T11", "First, refined") >>),
             Leaf("T2", "Second") >>)

\* An expansion with abstract and concrete groups: A (abstract) > A1,
\* A2 (abstract) > A21; B > B1; C (abstract, no entries below).
TreeContains ==
    ListV(<< Group("A", BoolV(TRUE),
                   << Contains("cs/tests", "A1", "A one"),
                      Group("A2", BoolV(TRUE),
                            << Contains("cs/tests", "A21", "A two one") >>) >>),
             Group("B", BoolV(FALSE),
                   << Contains("cs/tests", "B1", "B one") >>),
             Group("C", BoolV(TRUE), <<>>) >>)

\* AvailableResources._packages: the packages in load order, each with its
\* CodeSystems and ValueSets in discovery order.
Packages ==
    << [id |-> "uk",
        code_systems |->
            << CodeSystem("uk-marital", "cs/marital", None, MaritalConcepts) >>,
        value_sets |->
            << ValueSet("uk-marital-all", "vs/marital-all",
                        Compose(<<IncludeSystem("cs/marital")>>), NoneV),
               ValueSet("uk-married", "vs/married",
                        Compose(<<IncludeSubset("cs/marital", <<"M">>)>>), NoneV),
               ValueSet("uk-partner", "vs/partner",
                        Compose(<<IncludeSubset("cs/marital", <<"P", "S">>)>>), NoneV),
               ValueSet("uk-languages", "vs/languages",
                        Compose(<<IncludeSystem(BCP47)>>), NoneV),
               ValueSet("uk-empty", "vs/empty", NoneV, NoneV),
               ValueSet("uk-hollow", "vs/hollow", EmptyDictV, NoneV),
               ValueSet("uk-expanded", "vs/expanded",
                        Compose(<<IncludeSystem("cs/marital")>>),
                        DictV([contains |-> ListV(<<
                            Contains("cs/marital", "S", "Single"),
                            Contains("cs/marital", "M", "Wed") >>)])),
               ValueSet("uk-gender", "vs/gender",
                        Compose(<<IncludeSystem("cs/gender"),
                                  IncludeValueSets(<<"vs/languages">>)>>), NoneV) >>],
       [id |-> "core",
        code_systems |->
            << CodeSystem("core-marital", "cs/marital", None,
                          ListV(<<Leaf("M", "Married")>>)),
               CodeSystem("core-gender", "cs/gender", None,
                          ListV(<<Leaf("male", "Male"), Leaf("female", "Female")>>)) >>,
        value_sets |->
            << ValueSet("core-gender", "vs/gender",
                        Compose(<<IncludeSystem("cs/gender")>>), NoneV),
               ValueSet("core-units", "vs/units",
                        Compose(<<IncludeSystem("cs/units")>>), NoneV) >>],
       [id |-> "ref",
        code_systems |->
            << CodeSystem("ref-gender", "cs/gender", None,
                          ListV(<<Leaf("other", "Other")>>)),
               CodeSystem("ref-units", "cs/units", None, NoneV) >>,
        value_sets |->
            << ValueSet("ref-gender", "vs/gender",
                        NoneV, DictV([contains |-> ListV(<<
                            Contains("cs/gender", "other", "Other") >>)])),
               ValueSet("ref-languages", "vs/languages",
                        Compose(<<IncludeSystem(BCP47)>>), NoneV) >>],
       [id |-> "lab",
        code_systems |->
            << CodeSystem("lab-tests", "cs/tests", None, TestConcepts),
               Supplement("lab-marital", "cs/lab-marital", "cs/marital",
                          ListV(<<Parent("W", "Widowed", <<Leaf("W1", "Widow")>>)>>),
                          ListV(<<Property("status")>>)),
               Supplement("lab-more", "cs/lab-more", "cs/tests",
                          ListV(<<Leaf("T3", "Third")>>), NoneV),
               Supplement("lab-orphan", "cs/orphan", "cs/none",
                          ListV(<<Leaf("O", "Orphan")>>), NoneV),
               Supplement("lab-loop", "cs/loop", "cs/loop",
                          ListV(<<Leaf("L", "Loop")>>), NoneV) >>,
        value_sets |->
            << ValueSet("lab-zero", "vs/zero", NoneV,
                        DictV([total |-> IntV(0),
                               parameter |-> ListV(<<VersionParameter(<<"cs/tests", "1">>)>>),
                               contains |-> ListV(<<Contains("cs/tests", "T1", "First")>>)])),
               ValueSet("lab-counted", "vs/counted", NoneV,
                        DictV([total |-> IntV(1),
                               parameter |-> ListV(<<VersionParameter(<<"cs/tests", "1">>)>>),
                               contains |-> ListV(<<Contains("cs/tests", "T1", "First")>>)])),
               ValueSet("lab-tree", "vs/tree", NoneV,
                        DictV([contains |-> TreeContains])),
               ValueSet("lab-units", "vs/lab-units",
                        Compose(<<IncludeValueSets(<<"vs/units">>)>>), NoneV),
               ValueSet("lab-panel", "vs/panel",
                        Compose(<<IncludeValueSets(<<"vs/counted">>)>>), NoneV),
               ValueSet("lab-loop-a", "vs/loop-a",
                        Compose(<<IncludeValueSets(<<"vs/loop-b">>)>>), NoneV),
               ValueSet("lab-loop-b", "vs/loop-b",
                        Compose(<<IncludeValueSets(<<"vs/loop-a">>)>>), NoneV) >>] >>

\* The packages named on the command line: AvailableResources(packages=[...]).
Loaded(names) == SelectSeq(Packages, LAMBDA package :
                     \E i \in 1..Len(names) : names[i] = package.id)

\* AvailableResources.filter_codesystems(package_id=..., url=...); None as
\* package_id or url leaves that filter out.
filter_codesystems(loaded, package_id, url) ==
    Concat([i \in 1..Len(loaded) |->
        IF package_id # None /\ package_id # loaded[i].id THEN <<>>
        ELSE SelectSeq(loaded[i].code_systems,
                       LAMBDA codesystem : url = None \/ url = codesystem.url)])

\* AvailableResources.filter_valuesets(package_id=..., url=...)
filter_valuesets(loaded, package_id, url) ==
    Concat([i \in 1..Len(loaded) |->
        IF package_id # None /\ package_id # loaded[i].id THEN <<>>
        ELSE SelectSeq(loaded[i].value_sets,
                       LAMBDA valueset : url = None \/ url = valueset.url)])

\* RelationshipMatcher.__init__
Matcher(package_id, target_packages, reference_packages) ==
    [_resources |-> Loaded(target_packages \o reference_packages),
     _package_id |-> package_id,
     _target_packages |-> target_packages,
     _reference_packages |-> reference_packages]

\* The first resource of the first non-empty search, NoneV when all are empty.
FirstFound(searches) ==
    LET found == Concat(searches) IN IF found = <<>> THEN NoneV ELSE found[1]

\* A variant of the search order that asks the reference packages first.
SearchOrderReferenceFirst(self) ==
    self._reference_packages
        \o <<self._package_id>>
        \o SelectSeq(self._target_packages, LAMBDA id_ : id_ # self._package_id)

\* The packages _find_codesystem and _find_valueset ask, in order: the own
\* package, the other target packages, the reference packages.
SearchOrder(self) ==
    <<self._package_id>>
        \o SelectSeq(self._target_packages, LAMBDA id_ : id_ # self._package_id)
        \o self._reference_packages

\* RelationshipMatcher._find_codesystem
_find_codesystem(self, url) ==
    LET order == SearchOrder(self) IN
    FirstFound([i \in 1..Len(order) |->
                   filter_codesystems(self._resources, order[i], url)])

\* RelationshipMatcher._find_valueset
_find_valueset(self, url) ==
    LET order == SearchOrder(self) IN
    FirstFound([i \in 1..Len(order) |->
                   filter_valuesets(self._resources, order[i], url)])

MaxDepth == 4

\* The four lists a matching step hands back, or the exception that ended it.
Parts(includes, codesystems, concepts, contains) ==
    [raised |-> NoExc, includes |-> includes, codesystems |-> codesystems,
     concepts |-> concepts, contains |-> contains]
Failed(exc) ==
    [raised |-> exc, includes |-> <<>>, codesystems |-> <<>>,
     concepts |-> <<>>, contains |-> <<>>]

\* a += b on each of the four lists; an exception in a ends the work before b.
Plus(a, b) ==
    IF a.raised # NoExc THEN a
    ELSE IF b.raised # NoExc THEN b
    ELSE Parts(a.includes \o b.includes, a.codesystems \o b.codesystems,
               a.concepts \o b.concepts, a.contains \o b.contains)

\* The items of a JSON list, <<>> for a value that is falsy.
Items(value) == IF Truthy(value) /\ value.t = "list" THEN value.v ELSE <<>>

\* {**c, "system": system}
WithSystem(c, system) == DictV(("system" :> StrV(system)) @@ c.v)

\* concept.copy() with "concept" popped
Childless(concept) ==
    DictV([key \in DOMAIN concept.v \ {"concept"} |-> concept.v[key]])

SUPPORTED_CODESYSTEMS ==
    { "http://snomed.info/sct", "http://loinc.org", "https://dmd.nhs.uk",
      "urn:iso:std:iso:3166", "urn:iso:std:iso:3166:-2", "urn:ietf:bcp:47",
      "http://unitsofmeasure.org", "urn:ietf:rfc:3986", "urn:ietf:bcp:13",
      "urn:iso:std:iso:4217" }

RECURSIVE _filter_concepts_to_valueset(_, _, _)
\* ValueSetRelationshipMatcher._filter_concepts_to_valueset
_filter_concepts_to_valueset(codesystem_concepts, valueset_concept, _children) ==
    Concat([i \in 1..Len(codesystem_concepts) |->
        LET concept == codesystem_concepts[i] IN
        IF DictGet(concept, "code") = DictGet(valueset_concept, "code") \/ _children
        THEN <<Childless(concept)>>
                 \o _filter_concepts_to_valueset(Items(DictGet(concept, "concept")),
                                                 valueset_concept, TRUE)
        ELSE <<>>])

\* ValueSetRelationshipMatcher._get_codesystem_related_resources
_get_codesystem_related_resources(self, include) ==
    LET system == DictGet(include, "system").v
        codesystem == _find_codesystem(self, system)
        concepts == Items(DictGet(include, "concept"))
    IN  IF system \in SUPPORTED_CODESYSTEMS
        THEN Parts(<<include>>, <<>>, <<>>, <<>>)
        ELSE IF codesystem = NoneV
        THEN Parts(<<>>, <<>>, <<>>, <<>>)
        ELSE IF concepts # <<>> /\ Truthy(codesystem.concept)
        THEN Parts(<<>>, <<codesystem>>,
                   Concat([i \in 1..Len(concepts) |->
                       LET found == _filter_concepts_to_valueset(
                                        codesystem.concept.v, concepts[i], FALSE)
                       IN  [j \in 1..Len(found) |-> WithSystem(found[j], system)]]),
                   <<>>)
        ELSE IF Truthy(codesystem.concept)
        THEN Parts(<<>>, <<codesystem>>,
                   [j \in 1..Len(codesystem.concept.v) |->
                       WithSystem(codesystem.concept.v[j], system)],
                   <<>>)
        ELSE Parts(<<>>, <<codesystem>>, <<>>, <<>>)

\* A variant of the test that takes no entry for abstract.
NeverAbstract(contain) == FALSE

\* contain.get("abstract", False)
Abstract(contain) == Truthy(DictGet(contain, "abstract"))

RECURSIVE _flatten_contains(_)
\* ValueSetRelationshipMatcher._flatten_contains
_flatten_contains(contains) ==
    Concat([i \in 1..Len(contains) |->
        (IF ~Abstract(contains[i]) THEN <<contains[i]>> ELSE <<>>)
            \o _flatten_contains(Items(DictGet(contains[i], "contains")))])

\* The version parameters of an expansion: each names "uri|version".  A
\* valueUri is the sequence of its "|"-separated parts.
VersionUris(expansion) ==
    LET parameters == Items(DictGet(expansion, "parameter"))
        versions == SelectSeq(parameters, LAMBDA parameter :
                        /\ DictGet(parameter, "name") = StrV("version")
                        /\ Truthy(DictGet(parameter, "valueUri")))
    IN  [i \in 1..Len(versions) |-> DictGet(versions[i], "valueUri").v]

\* ValueSetRelationshipMatcher._match_expansion
_match_expansion(self, expansion) ==
    LET total == DictGet(expansion, "total")
        uris == SelectSeq(VersionUris(expansion), LAMBDA versionUri :
                    \A i \in 1..Len(versionUri) : versionUri[i] # "http://snomed.info/sct")
        found == [i \in 1..Len(uris) |-> _find_codesystem(self, uris[i][1])]
    IN  IF Truthy(total) /\ total = IntV(0) THEN Failed("Exit(0)")
        ELSE IF \E i \in 1..Len(uris) : Len(uris[i]) # 2 THEN Failed("ValueError")
        ELSE Parts(<<>>, SelectSeq(found, LAMBDA codesystem : codesystem # NoneV),
                   <<>>, _flatten_contains(Items(DictGet(expansion, "contains"))))

RECURSIVE Deduplicated(_)
\* The list without the items that occur earlier in it.
Deduplicated(items) ==
    IF items = <<>> THEN <<>>
    ELSE LET front == Deduplicated(SubSeq(items, 1, Len(items) - 1))
             item == items[Len(items)]
         IN  IF \E i \in 1..Len(front) : front[i] = item
             THEN front ELSE Append(front, item)

\* ValueSetRelationshipMatcher.Relationship
Relationship(res, parts) ==
    [resource |-> res, codesystems |-> parts.codesystems, concepts |-> parts.concepts,
     includes |-> parts.includes, contains |-> parts.contains]

\* ValueSetRelationshipMatcher._deduplicate_relationship
_deduplicate_relationship(relationship) ==
    [resource |-> relationship.resource,
     codesystems |-> Deduplicated(relationship.codesystems),
     concepts |-> Deduplicated(relationship.concepts),
     includes |-> Deduplicated(relationship.includes),
     contains |-> Deduplicated(relationship.contains)]

\* What match leaves: the relationship, or the exception raised.
Matched(relationship) == [raised |-> NoExc, relationship |-> relationship]
Unmatched(exc) == [raised |-> exc, relationship |-> NoneV]

\* A variant of the test that finds no ValueSet wanting.
NeverWanting(res) == FALSE

\* not resource.compose and not resource.expansion
NeitherComposeNorExpansion(res) == ~Truthy(res.compose) /\ ~Truthy(res.expansion)

RECURSIVE ValueSetRelationshipMatcher_match(_, _, _)
RECURSIVE _match_include(_, _, _)

\* ValueSetRelationshipMatcher._match_include
_match_include(self, includes, depth) ==
    IF includes = <<>> THEN Parts(<<>>, <<>>, <<>>, <<>>)
    ELSE LET include == Head(includes)
             related == IF Truthy(DictGet(include, "system"))
                        THEN _get_codesystem_related_resources(self, include)
                        ELSE Parts(<<>>, <<>>, <<>>, <<>>)
             concepts == Parts(<<>>, <<>>, Items(DictGet(include, "concept")), <<>>)
             urls == Items(DictGet(include, "valueSet"))
             valuesets == Concat([i \in 1..Len(urls) |->
                              filter_valuesets(self._resources, self._package_id,
                                               urls[i].v)])
             RECURSIVE Nested(_)
             Nested(i) ==
                 IF i > Len(valuesets) THEN Parts(<<>>, <<>>, <<>>, <<>>)
                 ELSE LET results == ValueSetRelationshipMatcher_match(
                                         self, valuesets[i], depth - 1)
                      IN  IF results.raised # NoExc THEN Failed(results.raised)
                          ELSE Plus(Parts(results.relationship.includes,
                                          results.relationship.codesystems,
                                          results.relationship.concepts,
                                          results.relationship.contains),
                                    Nested(i + 1))
         IN  Plus(Plus(Plus(related, concepts), Nested(1)),
                  _match_include(self, Tail(includes), depth))

\* ValueSetRelationshipMatcher._match_compose
_match_compose(self, compose, depth) ==
    _match_include(self, Items(DictGet(compose, "include")), depth)

\* ValueSetRelationshipMatcher.match; depth is what the interpreter's recursion
\* limit leaves.
ValueSetRelationshipMatcher_match(self, res, depth) ==
    IF depth = 0 THEN Unmatched("RecursionError")
    ELSE LET composed == IF Truthy(res.compose)
                         THEN _match_compose(self, res.compose, depth)
                         ELSE Parts(<<>>, <<>>, <<>>, <<>>)
             expanded == IF Truthy(res.expansion)
                         THEN _match_expansion(self, res.expansion)
                         ELSE Parts(<<>>, <<>>, <<>>, <<>>)
             parts == Plus(composed, expanded)
         IN  IF parts.raised # NoExc THEN Unmatched(parts.raised)
             ELSE IF NeitherComposeNorExpansion(res) THEN Unmatched("Exit(1)")
             ELSE Matched(_deduplicate_relationship(Relationship(res, parts)))

\* A variant of the flattening that stays at the top level.
TopLevelConcepts(concepts) == concepts

RECURSIVE _flatten_concepts(_)
\* CodeSystemRelationshipMatcher._flatten_concepts
_flatten_concepts(concepts) ==
    Concat([i \in 1..Len(concepts) |->
        <<concepts[i]>> \o _flatten_concepts(Items(DictGet(concepts[i], "concept")))])

RECURSIVE CodeSystemRelationshipMatcher_match(_, _, _)
\* CodeSystemRelationshipMatcher.match
CodeSystemRelationshipMatcher_match(self, res, depth) ==
    IF depth = 0 THEN Unmatched("RecursionError")
    ELSE LET base_codesystem == _find_codesystem(self, res.supplements)
             result == IF ~TruthyStr(res.supplements)
                       THEN Matched([concepts |-> <<>>, properties |-> <<>>])
                       ELSE IF base_codesystem = NoneV THEN Unmatched("Exit(1)")
                       ELSE CodeSystemRelationshipMatcher_match(
                                self, base_codesystem, depth - 1)
             valueset == IF TruthyStr(res.valueSet)
                         THEN _find_valueset(self, res.valueSet) ELSE NoneV
             matched == IF valueset = NoneV THEN Matched(NoneV)
                        ELSE ValueSetRelationshipMatcher_match(self, valueset, depth)
         IN  IF result.raised # NoExc THEN result
             ELSE IF matched.raised # NoExc THEN matched
             ELSE Matched([resource |-> res,
                           concepts |-> result.relationship.concepts
                                            \o _flatten_concepts(Items(res.concept)),
                           properties |-> result.relationship.properties
                                              \o Items(res.property),
                           valueset |-> matched.relationship])

\* The orders in which a set of type tags is listed; which one depends on the
\* interpreter's string hashing, fixed anew for every process.
HashSeeds == { <<"concept", "include", "contains">>, <<"contains", "include", "concept">> }

\* list({*existing_value.type, *value.type})
TypeUnion(seed, existing_type, value_type) ==
    SelectSeq(seed, LAMBDA tag :
        \/ \E i \in 1..Len(existing_type) : existing_type[i] = tag
        \/ \E i \in 1..Len(value_type) : value_type[i] = tag)

\* ValueSetDefinitionAllowedValue(...)
ValueSetDefinitionAllowedValue(type, c, system, display, description, filter) ==
    [code |-> c, type |-> type, system |-> system, display |-> display,
     description |-> description, filter |-> filter]

ValueFields == {"code", "system", "display", "description", "filter"}

\* f"{value.code}::{value.system}"
DedupKey(value) ==
    <<value.code.v, "::", IF value.system = NoneV THEN "None" ELSE value.system.v>>

\* A variant of the round that lets the later value take the place of the
\* stored one.
DeduplicateOverwriting(allowed_values, value, seed) ==
    SetKey(allowed_values, [key |-> DedupKey(value)], value)

\* One round of the loop of _deduplicate_valueset: value meets the entries kept
\* so far, <<[k, v], ...>>.
DeduplicateOne(allowed_values, value, seed) ==
    LET key == [key |-> DedupKey(value)]
        existing_value == Bucket(allowed_values, key)
        value_fields == {k \in ValueFields : value[k] # NoneV}
        existing_fields == {k \in value_fields : existing_value[k] # NoneV}
        fields == [k \in ValueFields |->
                      IF k \in value_fields THEN value[k]
                      ELSE IF k \in existing_fields THEN existing_value[k]
                      ELSE NoneV]
    IN  IF ~HasKey(allowed_values, key) THEN SetKey(allowed_values, key, value)
        ELSE IF \A k \in existing_fields : value[k] = existing_value[k]
        THEN SetKey(allowed_values, key,
                    ValueSetDefinitionAllowedValue(
                        TypeUnion(seed, existing_value.type, value.type),
                        value.code, fields["system"], fields["display"],
                        fields["description"], fields["filter"]))
        ELSE IF /\ value.type = <<"include">>
                /\ existing_value.type = <<"include">>
                /\ value.system = existing_value.system
                /\ value.filter # NoneV
        THEN SetKey(allowed_values, key,
                    [existing_value EXCEPT !.filter =
                        ListV(Items(existing_value.filter) \o value.filter.v)])
        ELSE Append(allowed_values, [k |-> [uuid4 |-> Len(allowed_values)], v |-> value])

RECURSIVE DeduplicateFrom(_, _, _)
DeduplicateFrom(allowed_values, values, seed) ==
    IF values = <<>> THEN allowed_values
    ELSE DeduplicateFrom(DeduplicateOne(allowed_values, Head(values), seed),
                         Tail(values), seed)

\* Definition._deduplicate_valueset
_deduplicate_valueset(definition, seed) ==
    LET allowed_values == DeduplicateFrom(<<>>, definition.allowed_values, seed)
    IN  [definition EXCEPT !.allowed_values =
            [i \in 1..Len(allowed_values) |-> allowed_values[i].v]]

\* The allowed values _convert_valueset collects from a relationship, one per
\* concept, include and contains entry, each unless it is in the list already.
AllowedValuesOf(relationship) ==
    LET concepts ==
            [i \in 1..Len(relationship.concepts) |->
                LET concept == relationship.concepts[i] IN
                ValueSetDefinitionAllowedValue(<<"concept">>,
                    DictGet(concept, "code"), DictGet(concept, "system"),
                    DictGet(concept, "display"), DictGet(concept, "definition"), NoneV)]
        includes ==
            [i \in 1..Len(relationship.includes) |->
                LET include == relationship.includes[i] IN
                ValueSetDefinitionAllowedValue(<<"include">>,
                    DictGet(include, "system"), DictGet(include, "system"),
                    DictGet(include, "system"), DictGet(include, "version"),
                    DictGet(include, "filter"))]
        contains ==
            [i \in 1..Len(relationship.contains) |->
                LET contain == relationship.contains[i] IN
                ValueSetDefinitionAllowedValue(<<"contains">>,
                    DictGet(contain, "code"), DictGet(contain, "system"),
                    DictGet(contain, "display"), NoneV, NoneV)]
    IN  Deduplicated(concepts \o includes \o contains)

\* Definition._convert_valueset
_convert_valueset(relationship, seed) ==
    _deduplicate_valueset(
            [name |-> relationship.resource.name,
             resource_id |-> IF TruthyStr(relationship.resource.id)
                             THEN relationship.resource.id
                             ELSE relationship.resource.name,
             resource_url |-> relationship.resource.url,
             compose |-> relationship.resource.compose,
             description |-> relationship.resource.description,
             related_codesystems |->
                 [i \in 1..Len(relationship.codesystems) |->
                     [id |-> relationship.codesystems[i].id,
                      url |-> relationship.codesystems[i].url]],
             allowed_values |-> AllowedValuesOf(relationship)],
            seed)

\* The CodeSystemDefinition that Definition.add_codesystem appends.
CodeSystemDefinition(relationship, seed) ==
    [name |-> relationship.resource.name,
     resource_id |-> IF TruthyStr(relationship.resource.id)
                     THEN relationship.resource.id ELSE relationship.resource.name,
     resource_url |-> relationship.resource.url,
     filter |-> IF Truthy(relationship.resource.filter)
                THEN relationship.resource.filter ELSE NoneV,
     concepts |-> relationship.concepts,
     properties |-> relationship.properties,
     valueset |-> IF relationship.valueset # NoneV
                  THEN _convert_valueset(relationship.valueset, seed) ELSE NoneV]

\* The hash property: the first 16 hex digits of the SHA-256 of the definition's
\* JSON, taken to differ for definitions that differ.
Hash(definition) == [sha256 |-> definition]

RECURSIVE Indexed(_, _)
\* manifest[...][field]: the hash of each definition under its name or id, a
\* later definition replacing an earlier one of the same name or id.
Indexed(definitions, field) ==
    IF definitions = <<>> THEN <<>>
    ELSE LET last_one == definitions[Len(definitions)]
         IN  SetKey(Indexed(SubSeq(definitions, 1, Len(definitions) - 1), field),
                    last_one[field], Hash(last_one))

\* A variant of write's clearing that keeps the files of a directory.
KeptDirectory(dir) == IF dir.kind = "dir" THEN dir.files ELSE {}

\* The files at the output path after mkdir, or after rmtree and mkdir.
ClearedDirectory(dir) == {}

\* Path.write_text: the file replaces one of the same path.
WriteText(files, dir, name, content) ==
    {file \in files : file.path # [dir |-> dir, name |-> name]}
        \cup {[path |-> [dir |-> dir, name |-> name], content |-> content]}

RECURSIVE WriteAll(_, _, _)
WriteAll(files, dir, definitions) ==
    IF definitions = <<>> THEN files
    ELSE WriteAll(WriteText(files, dir, Hash(Head(definitions)), Head(definitions)),
                  dir, Tail(definitions))

\* Definition.write(output_path): what is at the output path afterwards, or the
\* exception of rmtree when the output path is a regular file.
Definition_write(self, dir) ==
    LET manifest ==
            [valuesets |-> [name |-> Indexed(self.valuesets, "name"),
                            id |-> Indexed(self.valuesets, "resource_id")],
             codesystems |-> [name |-> Indexed(self.codesystems, "name"),
                              id |-> Indexed(self.codesystems, "resource_id")]]
        written == WriteAll(WriteAll(ClearedDirectory(dir), "valuesets", self.valuesets),
                            "codesystems", self.codesystems)
    IN  IF dir.kind = "file"
        THEN [raised |-> "NotADirectoryError", outdir |-> dir]
        ELSE [raised |-> NoExc,
              outdir |-> [kind |-> "dir",
                          files |-> WriteText(written, "", [plain |-> "manifest.json"],
                                              manifest)]]

MaxAdds == 2

\* typer's packages and --reference arguments.
Factories ==
    { [_target_packages |-> targets, _reference_packages |-> references] :
        targets \in {<<"uk">>, <<"uk", "core">>, <<"core", "uk">>, <<"lab", "core">>},
        references \in {<<>>, <<"ref">>, <<"core", "ref">>, <<"ref", "core">>} }

\* What an earlier run left at the output path.
StaleDefinition ==
    [name |-> "Stale", resource_id |-> "stale", resource_url |-> "vs/stale",
     compose |-> NoneV, description |-> None, related_codesystems |-> <<>>,
     allowed_values |-> <<>>]

OutputPaths ==
    { [kind |-> "absent"],
      [kind |-> "file"],
      [kind |-> "dir",
       files |-> { [path |-> [dir |-> "valuesets", name |-> Hash(StaleDefinition)],
                    content |-> StaleDefinition],
                   [path |-> [dir |-> "", name |-> [plain |-> "manifest.json"]],
                    content |-> [valuesets |->
                                    [name |-> <<[k |-> "Stale", v |-> Hash(StaleDefinition)]>>,
                                     id |-> <<[k |-> "stale", v |-> Hash(StaleDefinition)]>>],
                                 codesystems |-> [name |-> <<>>, id |-> <<>>]]],
                   [path |-> [dir |-> "", name |-> [plain |-> "notes.txt"]],
                    content |-> [text |-> "notes"]] }] }

\* The command lines under which generate is followed to the written output.
GenerateFactories ==
    { [_target_packages |-> <<"uk">>, _reference_packages |-> <<>>],
      [_target_packages |-> <<"uk", "core">>, _reference_packages |-> <<"ref">>],
      [_target_packages |-> <<"core", "uk">>, _reference_packages |-> <<"ref">>] }

CodeSystemUrls == {"cs/marital", "cs/gender", "cs/units", "cs/none"}
ValueSetUrls == {"vs/gender", "vs/languages", "vs/married", "vs/none"}

\* The matcher DefinitionFactory makes for the i-th target package.
MatcherFor(i) ==
    Matcher(factory._target_packages[i], factory._target_packages,
            factory._reference_packages)

\* The process has not been ended by an exception.
Running == IF glast = NoCall THEN TRUE ELSE glast.raised = NoExc

\* matcher._find_codesystem(url)
FindCodesystem ==
    /\ Running
    /\ \E i \in 1..Len(factory._target_packages), url \in CodeSystemUrls :
           glast' = [op |-> "_find_codesystem", self |-> MatcherFor(i), url |-> url,
                     raised |-> NoExc, result |-> _find_codesystem(MatcherFor(i), url)]
    /\ UNCHANGED <<factory, hashseed, generated, outdir>>
    /\ UNCHANGED <<strategyVars, validatorVars, queryVars, storeVars>>

\* matcher._find_valueset(url)
FindValueset ==
    /\ Running
    /\ \E i \in 1..Len(factory._target_packages), url \in ValueSetUrls :
           glast' = [op |-> "_find_valueset", self |-> MatcherFor(i), url |-> url,
                     raised |-> NoExc, result |-> _find_valueset(MatcherFor(i), url)]
    /\ UNCHANGED <<factory, hashseed, generated, outdir>>
    /\ UNCHANGED <<strategyVars, validatorVars, queryVars, storeVars>>

\* matcher._flatten_contains(expansion.get("contains", [])) on the expansion of
\* a ValueSet of the matcher's package.
FlattenContains ==
    /\ Running
    /\ \E i \in 1..Len(factory._target_packages) :
        LET valuesets == filter_valuesets(MatcherFor(i)._resources,
                                          factory._target_packages[i], None)
        IN  \E j \in 1..Len(valuesets) :
                /\ Truthy(valuesets[j].expansion)
                /\ LET contains == Items(DictGet(valuesets[j].expansion, "contains"))
                   IN  glast' = [op |-> "_flatten_contains", self |-> MatcherFor(i),
                                 contains |-> contains, raised |-> NoExc,
                                 result |-> _flatten_contains(contains)]
    /\ UNCHANGED <<factory, hashseed, generated, outdir>>
    /\ UNCHANGED <<strategyVars, validatorVars, queryVars, storeVars>>

\* One matcher.match(resource) of a resource of the matcher's package.
Match(op, self, res, out) ==
    /\ Running
    /\ glast' = [op |-> op, self |-> self, resource |-> res, raised |-> out.raised,
                 relationship |-> out.relationship, before |-> generated]
    /\ UNCHANGED <<factory, hashseed, outdir>>
    /\ UNCHANGED <<strategyVars, validatorVars, queryVars, storeVars>>

\* ValueSetRelationshipMatcher(...).match(resource)
MatchValueset ==
    \E i \in 1..Len(factory._target_packages) :
        LET valuesets == filter_valuesets(MatcherFor(i)._resources,
                                          factory._target_packages[i], None)
        IN  \E j \in 1..Len(valuesets) :
                /\ Match("match_valueset", MatcherFor(i), valuesets[j],
                         ValueSetRelationshipMatcher_match(MatcherFor(i), valuesets[j],
                                                           MaxDepth))
                /\ UNCHANGED generated

\* CodeSystemRelationshipMatcher(...).match(resource)
MatchCodesystem ==
    \E i \in 1..Len(factory._target_packages) :
        LET codesystems == filter_codesystems(MatcherFor(i)._resources,
                                              factory._target_packages[i], None)
        IN  \E j \in 1..Len(codesystems) :
                /\ Match("match_codesystem", MatcherFor(i), codesystems[j],
                         CodeSystemRelationshipMatcher_match(MatcherFor(i), codesystems[j],
                                                             MaxDepth))
                /\ UNCHANGED generated

\* One round of DefinitionFactory.generate's loop over the ValueSets:
\* definition.add_valueset(matcher.match(resource)).
GenerateValueset ==
    /\ Len(generated.valuesets) + Len(generated.codesystems) < MaxAdds
    /\ \E i \in 1..Len(factory._target_packages) :
        LET valuesets == filter_valuesets(MatcherFor(i)._resources,
                                          factory._target_packages[i], None)
        IN  \E j \in 1..Len(valuesets) :
                LET out == ValueSetRelationshipMatcher_match(MatcherFor(i), valuesets[j],
                                                             MaxDepth)
                IN  /\ Match("add_valueset", MatcherFor(i), valuesets[j], out)
                    /\ generated' =
                           IF out.raised # NoExc THEN generated
                           ELSE [generated EXCEPT !.valuesets =
                                    Append(@, _convert_valueset(out.relationship,
                                                                hashseed))]

\* One round of DefinitionFactory.generate's loop over the CodeSystems:
\* definition.add_codesystem(matcher.match(resource)).
GenerateCodesystem ==
    /\ Len(generated.valuesets) + Len(generated.codesystems) < MaxAdds
    /\ \E i \in 1..Len(factory._target_packages) :
        LET codesystems == filter_codesystems(MatcherFor(i)._resources,
                                              factory._target_packages[i], None)
        IN  \E j \in 1..Len(codesystems) :
                LET out == CodeSystemRelationshipMatcher_match(MatcherFor(i),
                                                               codesystems[j], MaxDepth)
                IN  /\ Match("add_codesystem", MatcherFor(i), codesystems[j], out)
                    /\ generated' =
                           IF out.raised # NoExc THEN generated
                           ELSE [generated EXCEPT !.codesystems =
                                    Append(@, CodeSystemDefinition(out.relationship,
                                                                   hashseed))]

\* definition.write(output)
Write ==
    /\ Running
    /\ LET out == Definition_write(generated, outdir)
       IN  /\ outdir' = out.outdir
           /\ glast' = [op |-> "write", raised |-> out.raised, before |-> outdir]
    /\ UNCHANGED <<factory, hashseed, generated>>
    /\ UNCHANGED <<strategyVars, validatorVars, queryVars, storeVars>>

\* The matchers of a freshly started compiler.
InitResolve ==
    /\ ChainIdle /\ QueryIdle /\ StoreIdle
    /\ factory \in Factories
    /\ hashseed = <<>>
    /\ generated = [valuesets |-> <<>>, codesystems |-> <<>>]
    /\ outdir = [kind |-> "absent"]
    /\ glast = NoCall

NextResolve ==
    FindCodesystem \/ FindValueset \/ FlattenContains \/ MatchValueset \/ MatchCodesystem

SpecResolve == InitResolve /\ [][NextResolve]_vars

\* fhirguard metadata generate: a new process, an empty Definition.
InitGenerate ==
    /\ ChainIdle /\ QueryIdle /\ StoreIdle
    /\ factory \in GenerateFactories
    /\ hashseed \in HashSeeds
    /\ generated = [valuesets |-> <<>>, codesystems |-> <<>>]
    /\ outdir \in OutputPaths
    /\ glast = NoCall

NextGenerate == GenerateCodesystem \/ GenerateValueset \/ Write

SpecGenerate == InitGenerate /\ [][NextGenerate]_vars

\* A ValueSet was compiled by the last step.
Compiled == glast # NoCall /\ glast.op = "add_valueset" /\ glast.raised = NoExc

\* The (code, system) pairs of a definition's allowed values.
KeysOf(compiled) ==
    {<<compiled.allowed_values[i].code, compiled.allowed_values[i].system>> :
        i \in 1..Len(compiled.allowed_values)}

\* C14: compiling the relationship of a compiled ValueSet again, in this or in
\* another process, gives a definition with the same set of (code, system)
\* keys, the same allowed values, type tags in the same order, and the same
\* content hash.
C14_CompiledTwiceAlike ==
    Compiled =>
        LET first == generated.valuesets[Len(generated.valuesets)] IN
        \A seed \in HashSeeds :
            LET second == _convert_valueset(glast.relationship, seed)
            IN  /\ KeysOf(second) = KeysOf(first)
                /\ second.allowed_values = first.allowed_values
                /\ Hash(second) = Hash(first)

\* C15: in every compiled ValueSet definition no two allowed values have the
\* same (code, system) pair.
C15_KeysUnique ==
    \A n \in 1..Len(generated.valuesets) :
        LET allowed_values == generated.valuesets[n].allowed_values IN
        \A i, j \in 1..Len(allowed_values) :
            (/\ allowed_values[i].code = allowed_values[j].code
             /\ allowed_values[i].system = allowed_values[j].system) => i = j

\* The elements of a sequence.
Range(seq) == {seq[i] : i \in 1..Len(seq)}

ManifestPath == [dir |-> "", name |-> [plain |-> "manifest.json"]]

\* The files write is to leave for the definitions of one kind.
DefinitionFiles(dir, definitions) ==
    {[path |-> [dir |-> dir, name |-> Hash(d)], content |-> d] : d \in Range(definitions)}

\* C16: after write(output_path) has returned, the output directory holds one
\* file valuesets/<hash>.json or codesystems/<hash>.json per compiled
\* definition, manifest.json, and nothing else, whatever was there before; and
\* every name -> hash and id -> hash entry of the manifest names a file written
\* in this run that holds a definition with that name or id.
C16_OutputReplaced ==
    (glast # NoCall /\ glast.op = "write" /\ glast.raised = NoExc) =>
        /\ outdir.kind = "dir"
        /\ LET manifests == {file \in outdir.files : file.path = ManifestPath}
               others == outdir.files \ manifests
           IN  /\ Cardinality(manifests) = 1
               /\ others = DefinitionFiles("valuesets", generated.valuesets)
                               \cup DefinitionFiles("codesystems", generated.codesystems)
               /\ \A manifest \in manifests :
                  \A dir \in {"valuesets", "codesystems"}, field \in {"name", "id"} :
                  \A entry \in Range(manifest.content[dir][field]) :
                      \E file \in others :
                          /\ file.path = [dir |-> dir, name |-> entry.v]
                          /\ entry.k = IF field = "name" THEN file.content.name
                                       ELSE file.content.resource_id

\* C16 happens: a ValueSet and a CodeSystem definition were written to a
\* directory that held the files of an earlier run.
C16_Witness ==
    /\ glast # NoCall
    /\ glast.op = "write"
    /\ glast.raised = NoExc
    /\ glast.before.kind = "dir"
    /\ glast.before.files # {}
    /\ Len(generated.valuesets) = 1
    /\ Len(generated.codesystems) = 1

\* The resources of one kind that package package_id holds under url, in
\* discovery order.
ResourcesAt(op, package_id, url) ==
    LET held == SelectSeq(Packages, LAMBDA package : package.id = package_id) IN
    IF held = <<>> THEN <<>>
    ELSE SelectSeq(IF op = "_find_codesystem" THEN held[1].code_systems
                   ELSE held[1].value_sets,
                   LAMBDA res : res.url = url)

\* C17: _find_codesystem(url) and _find_valueset(url) return the first
\* resource with that url of the first place that has one, the places being
\* the matcher's own package, then the other target packages in listed order,
\* then the reference packages in listed order; None is returned only when
\* none of these packages has the url.
C17_SearchedInOrder ==
    (glast # NoCall /\ glast.op \in {"_find_codesystem", "_find_valueset"}) =>
        LET self == glast.self
            places == <<self._package_id>>
                          \o SelectSeq(self._target_packages,
                                       LAMBDA id_ : id_ # self._package_id)
                          \o self._reference_packages
            at(k) == ResourcesAt(glast.op, places[k], glast.url)
        IN  IF \A k \in 1..Len(places) : at(k) = <<>>
            THEN glast.result = NoneV
            ELSE \E k \in 1..Len(places) :
                     /\ at(k) # <<>>
                     /\ \A j \in 1..(k - 1) : at(j) = <<>>
                     /\ glast.result = at(k)[1]

\* C17 happens: the own package has no CodeSystem with the url, another
\* target package and a reference package both have one, and the target
\* package's is returned.
C17_Witness ==
    /\ glast # NoCall
    /\ glast.op = "_find_codesystem"
    /\ glast.url = "cs/gender"
    /\ glast.self._package_id = "uk"
    /\ glast.self._target_packages = <<"uk", "core">>
    /\ glast.self._reference_packages = <<"ref">>
    /\ glast.result # NoneV
    /\ glast.result.id = "core-gender"

\* The last call was ValueSetRelationshipMatcher.match, on its own or from
\* DefinitionFactory.generate.
MatchedValueset == glast # NoCall /\ glast.op \in {"match_valueset", "add_valueset"}

\* C18 as stated: a ValueSet with neither compose nor expansion ends the run
\* with Exit(1), and a ValueSet that resolves has exactly one of the two.
C18_ExactlyOne ==
    MatchedValueset =>
        /\ (glast.resource.compose = NoneV /\ glast.resource.expansion = NoneV)
               => glast.raised = "Exit(1)"
        /\ glast.raised = NoExc
               => (glast.resource.compose # NoneV) # (glast.resource.expansion # NoneV)

\* C18, amended: a ValueSet with neither compose nor expansion (none, or an
\* empty one) ends the run with Exit(1), and a ValueSet that resolves has at
\* least one of the two, possibly both.
C18_AtLeastOne ==
    MatchedValueset =>
        /\ (~Truthy(glast.resource.compose) /\ ~Truthy(glast.resource.expansion))
               => glast.raised = "Exit(1)"
        /\ glast.raised = NoExc
               => Truthy(glast.resource.compose) \/ Truthy(glast.resource.expansion)

\* C18 happens: a ValueSet with both compose and expansion has resolved, in a
\* package that also holds one with neither, which match refuses.
C18_Witness ==
    /\ MatchedValueset
    /\ glast.raised = NoExc
    /\ Truthy(glast.resource.compose)
    /\ Truthy(glast.resource.expansion)
    /\ \E i \in 1..Len(factory._target_packages) :
       \E res \in Range(filter_valuesets(MatcherFor(i)._resources,
                                         factory._target_packages[i], None)) :
           /\ res.compose = NoneV
           /\ res.expansion = NoneV
           /\ ValueSetRelationshipMatcher_match(MatcherFor(i), res, MaxDepth).raised
                  = "Exit(1)"

\* The CodeSystem an include's system resolves to; NoneV for an include
\* without system, with an allow-listed system, or with a system not found.
ResolvedSystem(self, include) ==
    IF ~Truthy(DictGet(include, "system")) THEN NoneV
    ELSE IF DictGet(include, "system").v \in SUPPORTED_CODESYSTEMS THEN NoneV
    ELSE _find_codesystem(self, DictGet(include, "system").v)

\* The includes of the ValueSet last matched.
IncludesOf(res) ==
    IF Truthy(res.compose) THEN Range(Items(DictGet(res.compose, "include"))) ELSE {}

RECURSIVE CodesUnder(_, _, _)
\* The codes of a hierarchy of concepts that are named in wanted or, with
\* under, sit below a concept that is.
CodesUnder(concepts, wanted, under) ==
    UNION { LET concept == concepts[i]
                chosen == under \/ DictGet(concept, "code") \in wanted
            IN  (IF chosen THEN {DictGet(concept, "code")} ELSE {})
                    \cup CodesUnder(Items(DictGet(concept, "concept")), wanted, chosen)
            : i \in 1..Len(concepts) }

\* The codes a relationship holds for one system.
CodesOf(concepts, system) ==
    { DictGet(concepts[i], "code") :
        i \in {j \in 1..Len(concepts) : DictGet(concepts[j], "system") = system} }

\* C19: for an include with a resolvable system and an explicit concept
\* subset, the concepts resolved from the code system are those whose code the
\* subset names and all their descendants, at whatever depth the named code
\* sits.
C19_SubsetWithDescendants ==
    (glast # NoCall /\ glast.op = "match_valueset" /\ glast.raised = NoExc) =>
        \A include \in IncludesOf(glast.resource) :
            LET codesystem == ResolvedSystem(glast.self, include)
                subset == Items(DictGet(include, "concept"))
            IN  (/\ codesystem # NoneV
                 /\ subset # <<>>
                 /\ Cardinality(IncludesOf(glast.resource)) = 1)
                    => CodesOf(glast.relationship.concepts, DictGet(include, "system"))
                           = CodesUnder(Items(codesystem.concept),
                                        {DictGet(subset[i], "code") : i \in 1..Len(subset)},
                                        FALSE)

\* C20: for an include with a resolvable system and no concept subset, every
\* concept of the code system, at every depth, is a concept of the resolved
\* relationship and a "concept" allowed value of the compiled definition.
C20_WholeCodeSystem ==
    (glast # NoCall /\ glast.op = "add_valueset" /\ glast.raised = NoExc) =>
        \A include \in IncludesOf(glast.resource) :
            LET codesystem == ResolvedSystem(glast.self, include)
                system == DictGet(include, "system")
                allowed_values ==
                    generated.valuesets[Len(generated.valuesets)].allowed_values
            IN  (codesystem # NoneV /\ Items(DictGet(include, "concept")) = <<>>) =>
                    \A c \in CodesUnder(Items(codesystem.concept), {}, TRUE) :
                        /\ c \in CodesOf(glast.relationship.concepts, system)
                        /\ \E i \in 1..Len(allowed_values) :
                               /\ allowed_values[i].code = c
                               /\ allowed_values[i].system = system
                               /\ "concept" \in Range(allowed_values[i].type)

\* C21: resolving a ValueSet whose expansion declares a total of 0 ends the
\* work on that resource with the non-error Exit(0); nothing of the expansion,
\* neither its parameters nor its contains entries, reaches a relationship.
C21_ZeroTotalStops ==
    (/\ glast # NoCall
     /\ glast.op = "match_valueset"
     /\ Truthy(glast.resource.expansion)
     /\ DictGet(glast.resource.expansion, "total") = IntV(0))
        => /\ glast.raised = "Exit(0)"
           /\ glast.relationship = NoneV

\* C22: a valueSet url named inside an include is looked up across the
\* packages (own, other targets, references) and resolved in full; the
\* codesystems, concepts, includes and contains of that resolution are part of
\* the relationship of the ValueSet that names it.
C22_NestedValueSetsMerged ==
    (glast # NoCall /\ glast.op = "match_valueset" /\ glast.raised = NoExc) =>
        \A include \in IncludesOf(glast.resource) :
        \A url \in Range(Items(DictGet(include, "valueSet"))) :
            LET found == _find_valueset(glast.self, url.v)
                nested == ValueSetRelationshipMatcher_match(glast.self, found, MaxDepth)
            IN  (found # NoneV /\ nested.raised = NoExc) =>
                    /\ Range(nested.relationship.codesystems)
                           \subseteq Range(glast.relationship.codesystems)
                    /\ Range(nested.relationship.concepts)
                           \subseteq Range(glast.relationship.concepts)
                    /\ Range(nested.relationship.includes)
                           \subseteq Range(glast.relationship.includes)
                    /\ Range(nested.relationship.contains)
                           \subseteq Range(glast.relationship.contains)

RECURSIVE PathsOf(_, _)
\* The places of a tree of entries, each the sequence of indexes that leads to
\* it; label names the field that holds an entry's children.
PathsOf(entries, label) ==
    UNION { {<<i>>} \cup { <<i>> \o path :
                             path \in PathsOf(Items(DictGet(entries[i], label)), label) }
            : i \in 1..Len(entries) }

RECURSIVE EntryAt(_, _, _)
\* The entry at a place of the tree.
EntryAt(entries, label, path) ==
    IF Len(path) = 1 THEN entries[path[1]]
    ELSE EntryAt(Items(DictGet(entries[path[1]], label)), label, Tail(path))

\* Place p comes before place q depth-first: p is above q, or p branches off
\* to the left of q.
Before(p, q) ==
    \/ Len(p) < Len(q) /\ SubSeq(q, 1, Len(p)) = p
    \/ \E k \in 1..Len(p) :
           /\ k <= Len(q)
           /\ SubSeq(p, 1, k - 1) = SubSeq(q, 1, k - 1)
           /\ p[k] < q[k]

\* listed lists the entries at places, depth-first, one for one.
ListsDepthFirst(listed, entries, label, places) ==
    /\ Len(listed) = Cardinality(places)
    /\ \A p \in places :
           listed[1 + Cardinality({q \in places : Before(q, p)})]
               = EntryAt(entries, label, p)

\* C23: _flatten_contains yields, depth-first with an entry before those below
\* it, the entries of every depth that are not abstract: an abstract entry is
\* left out, the concrete entries below it are not.
C23_ConcreteDepthFirst ==
    (glast # NoCall /\ glast.op = "_flatten_contains") =>
        ListsDepthFirst(glast.result, glast.contains, "contains",
            { p \in PathsOf(glast.contains, "contains") :
                ~Truthy(DictGet(EntryAt(glast.contains, "contains", p), "abstract")) })

\* C23 happens: an expansion with abstract groups that hold concrete entries,
\* two levels deep, has been flattened to its four concrete entries.
C23_Witness ==
    /\ glast # NoCall
    /\ glast.op = "_flatten_contains"
    /\ glast.contains = TreeContains.v
    /\ Len(glast.result) = 4
    /\ DictGet(glast.result[2], "code") = StrV("A21")

\* C24: resolving a CodeSystem that declares supplements gives the concepts the
\* base CodeSystem resolves to, followed by the resource's own concepts listed
\* depth-first, and the base's properties followed by its own; when no package
\* holds the base CodeSystem the resolution ends with Exit(1) and gives no
\* relationship.
C24_SupplementInherits ==
    (/\ glast # NoCall
     /\ glast.op = "match_codesystem"
     /\ TruthyStr(glast.resource.supplements)) =>
        LET base == _find_codesystem(glast.self, glast.resource.supplements)
            inherited == CodeSystemRelationshipMatcher_match(glast.self, base, MaxDepth)
            own == Items(glast.resource.concept)
        IN  IF base = NoneV
            THEN glast.raised = "Exit(1)" /\ glast.relationship = NoneV
            ELSE inherited.raised = NoExc =>
                    LET concepts == glast.relationship.concepts
                        properties == glast.relationship.properties
                        n == Len(inherited.relationship.concepts)
                    IN  /\ glast.raised = NoExc
                        /\ n <= Len(concepts)
                        /\ SubSeq(concepts, 1, n) = inherited.relationship.concepts
                        /\ ListsDepthFirst(SubSeq(concepts, n + 1, Len(concepts)),
                                           own, "concept", PathsOf(own, "concept"))
                        /\ properties = inherited.relationship.properties
                                            \o Items(glast.resource.property)

\* C24 happens: a supplement with nested concepts and a property of its own
\* has been resolved after its base, found in another target package.
C24_Witness ==
    /\ glast # NoCall
    /\ glast.op = "match_codesystem"
    /\ glast.resource.id = "lab-marital"
    /\ glast.raised = NoExc
    /\ Len(glast.relationship.concepts) = 3
    /\ DictGet(glast.relationship.concepts[1], "code") = StrV("M")
    /\ DictGet(glast.relationship.concepts[3], "code") = StrV("W1")
    /\ Len(glast.relationship.properties) = 1

\* The allowed values of the definition compiled last.
LastAllowedValues == generated.valuesets[Len(generated.valuesets)].allowed_values

\* The last call compiled a ValueSet definition.
AddedValueset == glast # NoCall /\ glast.op = "add_valueset" /\ glast.raised = NoExc

\* Entry and other are the same code of the same system.
SameKey(entry, other) ==
    /\ DictGet(entry, "code") = DictGet(other, "code")
    /\ DictGet(entry, "system") = DictGet(other, "system")

\* The concept and the contains entry are the only two of the relationship
\* with their key, and agree on the display when both have one.
MergedPair(relationship, concept, contain) ==
    /\ SameKey(concept, contain)
    /\ \A other \in Range(relationship.concepts) :
           SameKey(other, concept) => other = concept
    /\ \A other \in Range(relationship.contains) :
           SameKey(other, contain) => other = contain
    /\ \/ DictGet(concept, "display") = NoneV
       \/ DictGet(contain, "display") = NoneV
       \/ DictGet(concept, "display") = DictGet(contain, "display")

\* C25: when a later allowed value has the key of the stored one and the two
\* agree on every field both define, the merged entry has the type tags of
\* both and each of display, description and filter from whichever defines it;
\* so the entry merged from a concept and a contains entry carries the
\* concept's definition as its description.
C25_MergeFillsFromBoth ==
    AddedValueset =>
        \A concept \in Range(glast.relationship.concepts),
           contain \in Range(glast.relationship.contains) :
            MergedPair(glast.relationship, concept, contain) =>
                \E i \in 1..Len(LastAllowedValues) :
                    LET value == LastAllowedValues[i] IN
                    /\ value.code = DictGet(concept, "code")
                    /\ value.system = DictGet(concept, "system")
                    /\ Range(value.type) = {"concept", "contains"}
                    /\ value.display = IF DictGet(concept, "display") # NoneV
                                       THEN DictGet(concept, "display")
                                       ELSE DictGet(contain, "display")
                    /\ value.description = DictGet(concept, "definition")

\* Two allowed values disagree on a field both define.
Disagree(value, other) ==
    \E k \in ValueFields : value[k] # NoneV /\ other[k] # NoneV /\ value[k] # other[k]

\* The case of two includes of one system whose filters are joined.
FilterMerge(stored, later) ==
    /\ later.type = <<"include">>
    /\ stored.type = <<"include">>
    /\ later.system = stored.system
    /\ later.filter # NoneV

\* values[i] and the later values[j] are the only two of the list with their
\* key, and they conflict.
Conflict(values, i, j) ==
    /\ i < j
    /\ DedupKey(values[i]) = DedupKey(values[j])
    /\ \A k \in 1..Len(values) : DedupKey(values[k]) = DedupKey(values[i]) => k \in {i, j}
    /\ Disagree(values[i], values[j])
    /\ ~FilterMerge(values[i], values[j])

C27_RecursionBounded ==
    (glast # NoCall /\ glast.op \in {"match_valueset", "match_codesystem"})
        => glast.raised # "RecursionError"

\* C28: after a coding or codeable_concept call that returned, every issue a
\* CodingValidator of that call recorded is among the strategy's issues,
\* whatever validate returned; so is a system mismatch recorded before a
\* language validation that succeeds.
C28_RecordedIssuesKept ==
    (last # NoCall /\ last.op \in {"coding", "codeable_concept"} /\ raised = NoExc) =>
        \A issue \in Range(last.recorded) : issue \in Range(Flattened(_issues))

\* C29: a ValueSet definition compiled from a resolved relationship has at
\* most one allowed value per code, so the validators' search for a code in it
\* never finds several values (the NotImplementedError of _validate_valueset);
\* so also when an include names a resolvable system and a list of concepts.
C29_OneValuePerCode ==
    AddedValueset =>
        \A value \in Range(LastAllowedValues) :
            ~MultipleMatches(SelectSeq(LastAllowedValues,
                                       LAMBDA other : other.code = value.code))

\* C30: a lookup by id or name comes back for every identifier with a
\* definition or with None, also for an identifier that contains "http" and is
\* in no manifest: the fallback to the last "/"-separated segment is taken a
\* bounded number of times and never keeps calling itself.
C30_LookupReturns ==
    \A i \in 1..Len(lookups) : lookups[i].raised # "RecursionError"

====
